---- MODULE Spec2Model ----
(***************************************************************************)
(* Tennis-court booking bot: the persistence store (bookings table,        *)
(* booking_history log), the BookingRepository operations with their       *)
(* suspension points, the hourly completion sweep, and the bot's cancel    *)
(* handler with the external-calendar calls it makes.                      *)
(*                                                                         *)
(* Dates are day numbers, times of day are minutes since midnight; both    *)
(* order exactly as the zero-padded strings 'YYYY-MM-DD' and 'HH:mm' the   *)
(* program stores and compares.  An instant is a number of minutes since   *)
(* 00:00 UTC of day 0.                                                     *)
(***************************************************************************)
EXTENDS Integers, Sequences, FiniteSets, TLC

VARIABLES
  bookings,     \* table bookings: sequence of rows, row i has id i
  history,      \* table booking_history: sequence of entries, in insert order
  now,          \* the wall clock (an instant)
  tz,           \* the host's offset of local time from UTC, in minutes
  proc,         \* the repository calls in flight, one per caller
  lastResult,   \* outcome of the store call that completed last
  calls,        \* number of store and migration calls made so far
  faults,       \* number of store statements that have raised an I/O error
  calendar,     \* ids of the events the external calendar holds
  issued,       \* number of event ids the external calendar has handed out
  authTokens,   \* table auth_tokens: the set of its rows
  oauth,        \* credentials held in memory by the OAuth2 client
  cancelH,      \* BotService.handleCancelBooking: the invocation in progress
  lastRoute,    \* handler the bot dispatched the last callback query to
  sched,        \* DatabaseScheduler: what each cron callback did so far
  migrations,   \* table migrations: the versions recorded
  schema,       \* the versions whose schema change the store file carries
  migLog,       \* the migration scripts executed and committed, in order
  calLog,       \* the GoogleCalendarService operation that completed last
  bookH,        \* BotService.handleBookSlot: each user's invocation in progress
  listing,      \* the slot listing computed last: its inputs and its answer
  backups,      \* the files of the backup directory
  conn          \* DatabaseConnection: the handle it holds, and the repository's

vars == <<bookings, history, now, tz, proc, lastResult, calls, faults, calendar,
          issued, authTokens, oauth, cancelH, lastRoute, sched, migrations,
          schema, migLog, calLog, bookH, listing, backups, conn>>

storeVars == <<bookings, history>>
clockVars == <<now, tz>>
calVars   == <<calendar, issued, authTokens, oauth>>
botVars   == <<cancelH, lastRoute>>
sysVars   == <<sched, migrations, schema, migLog>>
fileVars  == <<backups, conn>>
extVars   == <<bookH, listing, fileVars>>

-----------------------------------------------------------------------------
(* Bounds of the model *)

MaxBookings == 2      \* rows the bookings table may hold
MaxCalls    == 3      \* store calls (create, update, cancel) a run makes
MaxDay      == 1      \* session dates are the days 1..MaxDay
MaxEvents   == 2      \* event ids the external calendar hands out
MaxFaults   == 1      \* store statements that may raise an I/O error
MaxRuns     == 2      \* firings of each scheduled task
MaxCalendarCalls == 3 \* operations of the calendar service a run makes
MaxDaysAhead == 3     \* days a slot listing looks ahead

Users   == {"u1", "u2"}
Callers == {"c1", "c2"}
Dates   == 1..MaxDay

MinutesPerDay == 24 * 60
At(d, h, m)   == d * MinutesPerDay + h * 60 + m

\* two hours of the working-hours template, as HH:00
SessionTimes == {9 * 60, 14 * 60}

\* clock readings the model visits (UTC)
Instants == {At(0, 12, 0), At(1, 9, 30), At(MaxDay + 1, 12, 0)}

\* the offset of the zone the bot books in ('Europe/Kiev', summer time)
HostOffset == 3 * 60

-----------------------------------------------------------------------------
(* Values *)

NoEvent   == 0                       \* googleEventId NULL
NoBooking == [id |-> 0]              \* getBookingById(...) || null
NoValues  == [null |-> TRUE]         \* oldValues / newValues NULL
NoTokens  == [null |-> TRUE]
NoCall    == [op |-> "none"]
NoCalendarCall ==
  [op |-> "none", n |-> 0, outcome |-> "none", refresh |-> "none",
   exchanges |-> 0, requests |-> 0, stored |-> NoTokens]

Statuses == {"active", "cancelled", "completed"}

EventRefs == {NoEvent} \cup (1..MaxEvents)

Idle == [pc |-> "idle"]

\* A text (callback payload, field of a payload) is a sequence of tokens: a
\* word, or a date or a time of day written in the format that names it.
Word(w)     == [word |-> w, n |-> 0]
DateText(d) == [word |-> "YYYY-MM-DD", n |-> d]
TimeText(t) == [word |-> "HH:mm", n |-> t]
Underscore  == Word("_")

\* the value undefined, which is no text
Undefined == <<[word |-> "undefined", n |-> 0]>>

\* handleBookSlot before a user's first press of a booking button
NoBookSlot ==
  [pc |-> "idle", date |-> Undefined, time |-> Undefined, googleEventId |-> NoEvent,
   bookingId |-> 0, error |-> "none", reply |-> "none", coach |-> "no"]

\* no slot listing was asked for yet; now, later: the two reads of the host's
\* local clock a listing makes, busy: the keys of the events the calendar
\* answers its events.list with
NoListing ==
  [op |-> "none", arg |-> 0, now |-> 0, later |-> 0, busy |-> {},
   outcome |-> "none", result |-> <<>>]

\* new DatabaseConnection(config): the connection holds an open handle, and
\* the BookingRepository built over it holds the same one
Connected == [db |-> 1, open |-> TRUE, repository |-> 1]

-----------------------------------------------------------------------------
(* Schema: migration 1 (initial_schema) *)

\* the bookings table without the unique_session constraint
NoUniqueConstraint(rows, self, date, time) == FALSE

\* CONSTRAINT unique_session UNIQUE (sessionDate, sessionTime): whether a row
\* other than `self` (0: none) already holds the slot, whatever its status
UniqueViolation(rows, self, date, time) ==
  \E i \in 1..Len(rows) :
    /\ i # self
    /\ rows[i].sessionDate = date
    /\ rows[i].sessionTime = time

\* CHECK (status IN ('active', 'cancelled', 'completed'))
CheckStatus(status) == status \in Statuses

-----------------------------------------------------------------------------
(* MigrationManager *)

\* the version of the last entry of getMigrations()
LatestVersion == 4

Versions == 1..LatestVersion

\* getMigrations(): the migrations in array order, each named by its version
GetMigrations == [i \in 1..LatestVersion |-> i]

\* Array.prototype.reverse
Reverse(seq) == [i \in 1..Len(seq) |-> seq[Len(seq) + 1 - i]]

\* SELECT MAX(version) as version FROM migrations;  currentVersionRow?.version || 0
CurrentVersion(recorded) ==
  IF recorded = {} THEN 0
  ELSE CHOOSE v \in recorded : \A w \in recorded : w <= v

\* a filter that lets every migration through
PendingMigrationsAll(currentVersion) == GetMigrations

\* migrations.filter(m => m.version > currentVersion)
PendingMigrations(currentVersion) ==
  SelectSeq(GetMigrations, LAMBDA v : v > currentVersion)

\* the same filter over the array in its own order
MigrationsToRollbackUnreversed(targetVersion, currentVersion) ==
  SelectSeq(GetMigrations, LAMBDA v : v > targetVersion /\ v <= currentVersion)

\* getMigrations().reverse().filter(m => m.version > targetVersion
\*                                       && m.version <= currentVersion)
MigrationsToRollback(targetVersion, currentVersion) ==
  SelectSeq(Reverse(GetMigrations),
            LAMBDA v : v > targetVersion /\ v <= currentVersion)

\* the store file as the migration manager sees it
StoreFile(recorded, tables) == [migrations |-> recorded, schema |-> tables]

\* statements run one by one, each committed on its own: what a throw leaves
NoTransaction(before, atThrow, after, throws) ==
  IF throws THEN atThrow ELSE after

\* db.transaction(fn)(): the changes of fn are committed when fn returns and
\* rolled back when it throws.  atThrow: the changes made up to the throw.
Transaction(before, atThrow, after, throws) ==
  IF throws THEN before ELSE after

\* how a migration's transaction may fail: its script, or the statement that
\* records (or removes the record of) the version, raises an error
Failures == {"none", "script", "record"}

\* db.exec(migration.up): CREATE TABLE IF NOT EXISTS ...
ExecUp(file, v) == [file EXCEPT !.schema = @ \cup {v}]

\* db.exec(migration.down): DROP TABLE IF EXISTS ...
ExecDown(file, v) == [file EXCEPT !.schema = @ \ {v}]

\* the transaction of runMigrations' loop body: exec up, INSERT INTO migrations
ApplyMigration(file, v, fail) ==
  LET executed == ExecUp(file, v)
      recorded == [executed EXCEPT !.migrations = @ \cup {v}]
  IN Transaction(file, IF fail = "script" THEN file ELSE executed, recorded,
                 fail # "none")

\* the transaction of rollback's loop body: exec down, DELETE FROM migrations
RollbackMigration(file, v, fail) ==
  LET executed == ExecDown(file, v)
      removed  == [executed EXCEPT !.migrations = @ \ {v}]
  IN Transaction(file, IF fail = "script" THEN file ELSE executed, removed,
                 fail # "none")

\* for (const migration of ...) { try { transaction() } catch { throw } }:
\* the loop over `todo` in direction dir ("up" or "down"); the transaction of
\* version failAt fails in the way `fail` says, which ends the loop.
\* done: the scripts committed so far, as <<dir, version>>.
RECURSIVE MigrationLoop(_, _, _, _, _, _)
MigrationLoop(file, todo, dir, failAt, fail, done) ==
  IF todo = <<>>
  THEN [file |-> file, executed |-> done, outcome |-> "ok"]
  ELSE LET v    == Head(todo)
           f    == IF v = failAt THEN fail ELSE "none"
           next == IF dir = "up" THEN ApplyMigration(file, v, f)
                   ELSE RollbackMigration(file, v, f)
       IN IF f # "none"
          THEN [file |-> next, executed |-> done, outcome |-> "error"]
          ELSE MigrationLoop(next, Tail(todo), dir, failAt, fail,
                             Append(done, <<dir, v>>))

NoMigrationCall ==
  [op |-> "none", target |-> 0, outcome |-> "none", executed |-> <<>>, all |-> <<>>]

\* what a call of the migration manager leaves in the store and in the log
MigrationCall(op, target, run) ==
  /\ migrations' = run.file.migrations
  /\ schema' = run.file.schema
  /\ migLog' = [op |-> op, target |-> target, outcome |-> run.outcome,
                executed |-> run.executed, all |-> migLog.all \o run.executed]

\* runMigrations(): no await between its statements
RunMigrations(failAt, fail) ==
  LET currentVersion    == CurrentVersion(migrations)
      pendingMigrations == PendingMigrations(currentVersion)
  IN MigrationCall("runMigrations", LatestVersion,
                   MigrationLoop(StoreFile(migrations, schema), pendingMigrations,
                                 "up", failAt, fail, <<>>))

\* rollback(targetVersion): no await between its statements
Rollback(targetVersion, failAt, fail) ==
  LET currentVersion == CurrentVersion(migrations)
      migrationsToRollback == MigrationsToRollback(targetVersion, currentVersion)
  IN IF targetVersion >= currentVersion
     THEN MigrationCall("rollback", targetVersion,
                        [file |-> StoreFile(migrations, schema),
                         executed |-> <<>>, outcome |-> "ok"])
     ELSE MigrationCall("rollback", targetVersion,
                        MigrationLoop(StoreFile(migrations, schema),
                                      migrationsToRollback, "down", failAt, fail, <<>>))

-----------------------------------------------------------------------------
(* BookingRepository *)

\* SELECT * FROM bookings WHERE id = ?  (|| null)
GetBookingById(id) ==
  IF id \in 1..Len(bookings) THEN bookings[id] ELSE NoBooking

\* SELECT * FROM bookings WHERE telegramUserId = ? AND status = 'active'
GetBookingsByUser(rows, u) ==
  {i \in 1..Len(rows) : rows[i].telegramUserId = u /\ rows[i].status = "active"}

\* { ...oldBooking, ...updates }
Merge(old, updates) ==
  [f \in DOMAIN old |-> IF f \in DOMAIN updates THEN updates[f] ELSE old[f]]

\* the row of logBookingHistory's INSERT INTO booking_history
HistoryEntry(bookingId, action, oldValues, newValues, performedBy) ==
  [bookingId   |-> bookingId,
   action      |-> action,
   oldValues   |-> oldValues,
   newValues   |-> newValues,
   performedBy |-> performedBy]

\* UPDATE bookings SET <fields>, updatedAt = CURRENT_TIMESTAMP WHERE id = ?
UpdatedRow(row, updates) ==
  [Merge(row, updates) EXCEPT !.updatedAt = now]

\* an UPDATE that no constraint of the schema rejects
UpdateNeverRejected(id, updates) == FALSE

\* whether that UPDATE is rejected by a constraint of the schema
UpdateRejected(id, updates) ==
  LET new == Merge(bookings[id], updates) IN
    \/ ~CheckStatus(new.status)
    \/ UniqueViolation(bookings, id, new.sessionDate, new.sessionTime)


-----------------------------------------------------------------------------
(* Outcome of a completed store call.  `logged` lists, in order, the actions *)
(* of the history entries the call itself inserted.                          *)

Result(op, outcome, id, date, time, logged) ==
  [op |-> op, outcome |-> outcome, id |-> id,
   sessionDate |-> date, sessionTime |-> time, logged |-> logged]

\* the booking object createBooking is given (status as the bot passes it)
NewBooking(u, date, time, ev) ==
  [telegramUserId |-> u,
   sessionDate    |-> date,
   sessionTime    |-> time,
   googleEventId  |-> ev,
   status         |-> "active"]

\* the row INSERT INTO bookings stores: AUTOINCREMENT id, DEFAULT CURRENT_TIMESTAMP
\* (of the columns, username, phoneNumber and notes are left out: no operation
\* modelled here reads or changes them)
InsertedRow(booking) ==
  [id             |-> Len(bookings) + 1,
   telegramUserId |-> booking.telegramUserId,
   sessionDate    |-> booking.sessionDate,
   sessionTime    |-> booking.sessionTime,
   googleEventId  |-> booking.googleEventId,
   status         |-> booking.status,
   createdAt      |-> now,
   updatedAt      |-> now]

\* a catch block that tells no error apart
TranslateNothing(code) == "error"

\* createBooking's catch: SQLITE_CONSTRAINT_UNIQUE becomes the error
\* 'This time slot is already booked' (DuplicateSlot), any other is rethrown
TranslateError(code) ==
  IF code = "SQLITE_CONSTRAINT_UNIQUE" THEN "DuplicateSlot" ELSE "error"

\* createBooking: INSERT, then logBookingHistory('created'); no await lies
\* between the two statements.  A UNIQUE violation becomes the error
\* 'This time slot is already booked'; any other error is rethrown as it is.
\* historyThrows: the INSERT INTO booking_history raises an error.
CreateBooking(u, date, time, ev, historyThrows) ==
  LET booking == NewBooking(u, date, time, ev)
      row     == InsertedRow(booking)
  IN
  IF UniqueViolation(bookings, 0, date, time)
  THEN /\ lastResult' = Result("createBooking",
                               TranslateError("SQLITE_CONSTRAINT_UNIQUE"),
                               0, date, time, <<>>)
       /\ UNCHANGED <<storeVars, faults>>
  ELSE /\ Len(bookings) < MaxBookings
       /\ bookings' = Append(bookings, row)
       /\ IF historyThrows
          THEN /\ faults < MaxFaults
               /\ faults' = faults + 1
               /\ history' = history
               /\ lastResult' = Result("createBooking", TranslateError("SQLITE_IOERR"),
                                       row.id, date, time, <<>>)
          ELSE /\ faults' = faults
               /\ history' = Append(history,
                    HistoryEntry(row.id, "created", NoValues, booking, u))
               /\ lastResult' =
                    Result("createBooking", "ok", row.id, date, time, <<"created">>)

\* Database.createBooking -> BookingRepository.createBooking
DbCreateBooking ==
  \E u \in Users, d \in Dates, t \in SessionTimes, ev \in EventRefs,
     historyThrows \in BOOLEAN :
    /\ calls < MaxCalls
    /\ calls' = calls + 1
    /\ CreateBooking(u, d, t, ev, historyThrows)
    /\ UNCHANGED <<clockVars, proc, calVars, botVars, sysVars, calLog, extVars>>

\* the partial-field objects updateBooking is called with
UpdateInputs ==
  {[status |-> s] : s \in Statuses \cup {"pending"}}
    \cup {[sessionDate |-> d, sessionTime |-> t] : d \in Dates, t \in SessionTimes}

\* Database.updateBooking(id, updates): the actor it hands to the repository
PerformedBy(updates) ==
  IF "telegramUserId" \in DOMAIN updates THEN updates.telegramUserId ELSE "system"

\* Database.updateBooking -> BookingRepository.updateBooking up to its first
\* await: getBookingById, 'Booking not found'
UpdateBookingCall(c, id, updates) ==
  /\ proc[c] = Idle
  /\ LET oldBooking == GetBookingById(id)
         performedBy == PerformedBy(updates)
     IN
     IF oldBooking = NoBooking
     THEN /\ lastResult' = Result("updateBooking", "NotFound", id, 0, 0, <<>>)
          /\ UNCHANGED proc
     ELSE /\ proc' = [proc EXCEPT ![c] =
                 [pc |-> "update_write", op |-> "updateBooking", id |-> id,
                  updates |-> updates, performedBy |-> performedBy,
                  oldBooking |-> oldBooking, outerOld |-> NoBooking,
                  logged |-> <<>>]]
          /\ UNCHANGED lastResult
  /\ UNCHANGED <<storeVars, clockVars, faults, calVars, botVars, sysVars, calLog, extVars>>

\* BookingRepository.cancelBooking up to its first await: getBookingById,
\* 'Booking not found'
CancelBookingLoad(c, id, performedBy) ==
  LET oldBooking == GetBookingById(id) IN
  IF oldBooking = NoBooking
  THEN /\ lastResult' = Result("cancelBooking", "NotFound", id, 0, 0, <<>>)
       /\ proc' = [proc EXCEPT ![c] = Idle]
  ELSE /\ proc' = [proc EXCEPT ![c] =
              [pc |-> "update_load", op |-> "cancelBooking", id |-> id,
               updates |-> [status |-> "cancelled"], performedBy |-> performedBy,
               oldBooking |-> NoBooking, outerOld |-> oldBooking,
               logged |-> <<>>]]
       /\ UNCHANGED lastResult

\* Database.cancelBooking(id) up to its await: getBookingById, 'Booking not found'
DbCancelBookingCall(c, id) ==
  /\ proc[c] = Idle
  /\ LET booking == GetBookingById(id) IN
     IF booking = NoBooking
     THEN /\ lastResult' = Result("cancelBooking", "NotFound", id, 0, 0, <<>>)
          /\ UNCHANGED proc
     ELSE /\ proc' = [proc EXCEPT ![c] =
                 [pc |-> "cancel_load", id |-> id,
                  performedBy |-> booking.telegramUserId]]
          /\ UNCHANGED lastResult
  /\ UNCHANGED <<storeVars, clockVars, faults, calVars, botVars, sysVars, calLog, extVars>>

\* Database.cancelBooking resumed: bookingRepo.cancelBooking(id, owner)
DbCancelBookingResume(c) ==
  /\ proc[c].pc = "cancel_load"
  /\ CancelBookingLoad(c, proc[c].id, proc[c].performedBy)
  /\ UNCHANGED <<storeVars, clockVars, faults, calVars, botVars, sysVars, calLog, extVars>>

\* cancelBooking resumed: it calls updateBooking, which runs to its first await
UpdateLoad(c) ==
  /\ proc[c].pc = "update_load"
  /\ LET oldBooking == GetBookingById(proc[c].id) IN
     IF oldBooking = NoBooking
     THEN /\ lastResult' = Result(proc[c].op, "NotFound", proc[c].id, 0, 0, <<>>)
          /\ proc' = [proc EXCEPT ![c] = Idle]
     ELSE /\ proc' = [proc EXCEPT ![c] =
                 [proc[c] EXCEPT !.pc = "update_write", !.oldBooking = oldBooking]]
          /\ UNCHANGED lastResult
  /\ UNCHANGED <<storeVars, clockVars, faults, calVars, botVars, sysVars, calLog, extVars>>

\* updateBooking resumed: UPDATE, then logBookingHistory('modified') with the
\* row loaded before the await as old values; no await between the statements.
UpdateWrite(c, historyThrows) ==
  LET p   == proc[c]
      row == bookings[p.id]
  IN
  /\ p.pc = "update_write"
  /\ IF UpdateRejected(p.id, p.updates)
     THEN /\ lastResult' = Result(p.op, "error", p.id, 0, 0, p.logged)
          /\ proc' = [proc EXCEPT ![c] = Idle]
          /\ UNCHANGED <<storeVars, faults>>
     ELSE /\ bookings' = [bookings EXCEPT ![p.id] = UpdatedRow(row, p.updates)]
          /\ IF historyThrows
             THEN /\ faults < MaxFaults
                  /\ faults' = faults + 1
                  /\ history' = history
                  /\ lastResult' = Result(p.op, "error", p.id, 0, 0, p.logged)
                  /\ proc' = [proc EXCEPT ![c] = Idle]
             ELSE /\ faults' = faults
                  /\ history' = Append(history,
                       HistoryEntry(p.id, "modified", p.oldBooking,
                                    Merge(p.oldBooking, p.updates), p.performedBy))
                  /\ IF p.op = "cancelBooking"
                     THEN /\ proc' = [proc EXCEPT ![c] =
                                 [p EXCEPT !.pc = "cancel_log",
                                           !.logged = Append(p.logged, "modified")]]
                          /\ UNCHANGED lastResult
                     ELSE /\ proc' = [proc EXCEPT ![c] = Idle]
                          /\ lastResult' = Result(p.op, "ok", p.id, 0, 0,
                                                  Append(p.logged, "modified"))
  /\ UNCHANGED <<clockVars, calVars, botVars, sysVars, calLog, extVars>>

\* cancelBooking resumed after updateBooking: logBookingHistory('cancelled')
\* with the row cancelBooking loaded at its start as old values
CancelLog(c, historyThrows) ==
  LET p == proc[c] IN
  /\ p.pc = "cancel_log"
  /\ IF historyThrows
     THEN /\ faults < MaxFaults
          /\ faults' = faults + 1
          /\ history' = history
          /\ lastResult' = Result(p.op, "error", p.id, 0, 0, p.logged)
     ELSE /\ faults' = faults
          /\ history' = Append(history,
               HistoryEntry(p.id, "cancelled", p.outerOld,
                            Merge(p.outerOld, [status |-> "cancelled"]),
                            p.performedBy))
          /\ lastResult' = Result(p.op, "ok", p.id, 0, 0,
                                  Append(p.logged, "cancelled"))
  /\ proc' = [proc EXCEPT ![c] = Idle]
  /\ UNCHANGED <<bookings, clockVars, calVars, botVars, sysVars, calLog, extVars>>

-----------------------------------------------------------------------------
(* DatabaseScheduler *)

\* now.toISOString().split('T')[0]: the date of the instant in UTC
CurrentDate(t) == t \div MinutesPerDay

\* now.toTimeString().substring(0, 5): the time of day in the host's zone
CurrentTime(t, offset) == (t + offset) % MinutesPerDay

\* an UPDATE whose WHERE clause matches no row
SweepSelectsNothing(row, currentDate, currentTime) == FALSE

\* WHERE status = 'active'
\*   AND (sessionDate < ? OR (sessionDate = ? AND sessionTime < ?))
SweepSelects(row, currentDate, currentTime) ==
  /\ row.status = "active"
  /\ \/ row.sessionDate < currentDate
     \/ (row.sessionDate = currentDate /\ row.sessionTime < currentTime)

\* the bookings table after the sweep's UPDATE, run on `rows` at instant t on
\* a host whose local time is `offset` minutes ahead of UTC
Swept(rows, t, offset) ==
  [i \in 1..Len(rows) |->
     IF SweepSelects(rows[i], CurrentDate(t), CurrentTime(t, offset))
     THEN [rows[i] EXCEPT !.status = "completed", !.updatedAt = t]
     ELSE rows[i]]

\* markPastSessionsCompleted: one UPDATE statement, no history entry
MarkPastSessionsCompleted ==
  /\ bookings' = Swept(bookings, now, tz)
  /\ UNCHANGED <<history, clockVars, proc, lastResult, calls, faults, calVars, botVars, sysVars, calLog, extVars>>

\* the wall clock advances
Tick ==
  /\ \E t \in Instants : t > now /\ now' = t
  /\ UNCHANGED <<storeVars, tz, proc, lastResult, calls, faults, calVars, botVars, sysVars, calLog, extVars>>

-----------------------------------------------------------------------------
(* DatabaseConnection: backup, restore, pruning of backup files *)

\* retentionDays: parseInt(process.env.DB_RETENTION_DAYS || '30')
RetentionDays == 30

\* the content of the store file: its tables
StoreContent ==
  [bookings   |-> bookings,
   history    |-> history,
   authTokens |-> authTokens,
   migrations |-> migrations,
   schema     |-> schema]

\* calculateChecksum: the SHA-256 digest of a file; it tells apart any two
\* contents met here
CalculateChecksum(content) == <<"sha256", content>>

\* `tennis_bookings_${timestamp}.db`: a name no file of the directory has
BackupName ==
  CHOOSE n \in 1..(Cardinality(backups) + 1) : \A f \in backups : f.name # n

\* backup(): db.backup(backupPath) writes a copy of the store, statSync reads
\* its size and time, calculateChecksum its digest.  checksum is the digest
\* of the BackupInfo backup() returns for the file.
BackupFile ==
  [name     |-> BackupName,
   mtime    |-> now,
   content  |-> StoreContent,
   opens    |-> TRUE,
   checksum |-> CalculateChecksum(StoreContent)]

\* the backup directory after backup(); db.backup raises an error when it
\* fails (ok false) or when the connection's handle is closed
Backup(ok) ==
  IF ok /\ conn.open THEN backups \cup {BackupFile} ELSE backups

\* a pruning that also deletes the file whose time is the cutoff itself
ExpiredOrAtCutoff(mtime, cutoffDate) == mtime <= cutoffDate

\* backup.stats.mtime < cutoffDate
Expired(mtime, cutoffDate) == mtime < cutoffDate

\* cutoffDate.setDate(cutoffDate.getDate() - days)
CutoffDate(days) == now - days * MinutesPerDay

\* cleanupOldBackups: unlinkSync of every backup file whose mtime is before
\* the cutoff
CleanupOldBackups(files) ==
  {f \in files : ~Expired(f.mtime, CutoffDate(RetentionDays))}

\* verifyBackup: new Database(backupPath, {readonly: true}) and
\* SELECT COUNT(*) FROM sqlite_master succeed; any error answers false
VerifyBackup(f) == f.opens

\* the handle the repository took from getDatabase() in its constructor is
\* the handle the connection holds, and it is open
RepositoryUsable == conn.repository = conn.db /\ conn.open

\* what a statement on the repository's handle answers: the rows, or
\* TypeError 'The database connection is not open'
Answered(value, none) ==
  IF RepositoryUsable
  THEN [outcome |-> "ok", value |-> value]
  ELSE [outcome |-> "ConnectionNotOpen", value |-> none]

\* SELECT * FROM bookings WHERE status = 'active' AND sessionDate >= date('now')
\* over rows at instant t; date('now') is the UTC date
ActiveBookingsOf(rows, t) ==
  {rows[i] : i \in {j \in 1..Len(rows) :
                      /\ rows[j].status = "active"
                      /\ rows[j].sessionDate >= t \div MinutesPerDay}}

\* the SELECT of getBookingStatistics over rows at instant t: createdAt, a
\* 'YYYY-MM-DD HH:MM:SS' string, is compared with the ISO string of the
\* cutoff, 'YYYY-MM-DDTHH:MM:SS.sssZ'; a row counts when its date is after
\* the cutoff's date (on the same date the blank sorts before the 'T')
StatisticsOf(rows, t, days) ==
  LET cutoffDate == t - days * MinutesPerDay
      counted    == {i \in 1..Len(rows) :
                       rows[i].createdAt \div MinutesPerDay
                         > cutoffDate \div MinutesPerDay}
      With(s)    == Cardinality({i \in counted : rows[i].status = s})
  IN [totalBookings     |-> Cardinality(counted),
      activeBookings    |-> With("active"),
      cancelledBookings |-> With("cancelled"),
      completedBookings |-> With("completed"),
      uniqueUsers       |-> Cardinality({rows[i].telegramUserId : i \in counted}),
      completionRate    |-> IF counted = {} THEN <<>>
                            ELSE <<With("completed"), Cardinality(counted)>>]

\* BookingRepository.getActiveBookings
GetActiveBookings == Answered(ActiveBookingsOf(bookings, now), {})

\* BookingRepository.getBookingStatistics(days)
GetBookingStatistics(days) ==
  Answered(StatisticsOf(bookings, now, days), StatisticsOf(<<>>, now, days))

\* restore(backupPath): existsSync, verifyBackup, then close(), copyFileSync
\* over the store file and initializeConnection(), which opens a new handle;
\* the repository keeps the handle it took in its constructor.
\* copyOk: copyFileSync raises no error.
Restore(backupPath, copyOk) ==
  LET found == {f \in backups : f.name = backupPath}
      f     == CHOOSE f \in found : TRUE
  IN
  IF found = {}
  THEN /\ lastResult' = Result("restore", "BackupFileNotFound", backupPath, 0, 0, <<>>)
       /\ UNCHANGED <<storeVars, authTokens, migrations, schema, conn>>
  ELSE IF ~VerifyBackup(f)
  THEN /\ lastResult' = Result("restore", "BackupFileCorrupted", backupPath, 0, 0, <<>>)
       /\ UNCHANGED <<storeVars, authTokens, migrations, schema, conn>>
  ELSE IF ~copyOk
  THEN /\ lastResult' = Result("restore", "error", backupPath, 0, 0, <<>>)
       /\ conn' = [conn EXCEPT !.open = FALSE]
       /\ UNCHANGED <<storeVars, authTokens, migrations, schema>>
  ELSE /\ lastResult' = Result("restore", "ok", backupPath, 0, 0, <<>>)
       /\ bookings' = f.content.bookings
       /\ history' = f.content.history
       /\ authTokens' = f.content.authTokens
       /\ migrations' = f.content.migrations
       /\ schema' = f.content.schema
       /\ conn' = [conn EXCEPT !.db = @ + 1, !.open = TRUE]

\* the store file right after the migrations ran: no booking, no token
FreshContent ==
  [bookings |-> <<>>, history |-> <<>>, authTokens |-> {},
   migrations |-> Versions, schema |-> Versions]

\* a backup file an earlier run left in the backup directory
OldBackup(name, mtime) ==
  [name |-> name, mtime |-> mtime, content |-> FreshContent, opens |-> TRUE,
   checksum |-> CalculateChecksum(FreshContent)]

\* the backup directory at the start: a file 40 days old, a file exactly
\* RetentionDays old, and a file that grows older than that within a day
OldBackups ==
  {OldBackup(1, At(0, 12, 0) - 40 * MinutesPerDay),
   OldBackup(2, At(0, 12, 0) - RetentionDays * MinutesPerDay),
   OldBackup(3, At(0, 12, 0) - RetentionDays * MinutesPerDay + 60)}

-----------------------------------------------------------------------------
(* DatabaseScheduler: the scheduled tasks *)

\* the tasks start() schedules: '0 2 * * *', '0 * * * *', '0 */6 * * *'
Tasks == {"backup", "sweep", "health"}

\* the scheduler after start(); autoBackup: DB_AUTO_BACKUP === 'true'.
\* runs: firings of each callback; failed: firings in which an operation of
\* the task raised an error; last: how the last firing of each ended;
\* escaped: the callbacks that let an error out (an unhandled rejection)
SchedulerStarted(autoBackup) ==
  [autoBackup |-> autoBackup,
   runs       |-> [t \in Tasks |-> 0],
   failed     |-> [t \in Tasks |-> 0],
   last       |-> [t \in Tasks |-> "none"],
   escaped    |-> {}]

\* node-cron fires the callback of task t.  An error that escapes a callback
\* is an unhandled promise rejection, on which Node ends the process: no
\* callback fires after it.
Fires(t) ==
  /\ sched.escaped = {}
  /\ sched.runs[t] < MaxRuns

\* the scheduler after a firing of task t that ended as `outcome`
Fired(t, outcome, failure, escapes) ==
  [sched EXCEPT !.runs[t]   = @ + 1,
                !.failed[t] = IF failure THEN @ + 1 ELSE @,
                !.last[t]   = outcome,
                !.escaped   = IF escapes THEN @ \cup {t} ELSE @]

\* a health check that lets the errors of its probes out
HealthCheckRethrows(queryOk, statOk) ==
  IF queryOk /\ statOk THEN "healthy" ELSE "throws"

\* DatabaseConnection.healthCheck: SELECT 1 and statSync of the store file
\* inside try/catch; an error of either becomes the answer 'unhealthy'
HealthCheck(queryOk, statOk) ==
  IF queryOk /\ statOk THEN "healthy" ELSE "unhealthy"

\* '0 2 * * *': try { backup(); cleanupOldBackups() } catch { log }
\* An error of backup() skips the pruning and is caught by the callback;
\* cleanupOldBackups catches and logs its own errors (cleanupOk false: it
\* fails before it deletes a file), so the callback ends as completed.
BackupTask(backupOk, cleanupOk) ==
  /\ sched.autoBackup
  /\ Fires("backup")
  /\ IF backupOk /\ conn.open
     THEN /\ backups' = IF cleanupOk
                        THEN CleanupOldBackups(Backup(backupOk))
                        ELSE Backup(backupOk)
          /\ sched' = Fired("backup", "ok", ~cleanupOk, FALSE)
     ELSE /\ backups' = backups
          /\ sched' = Fired("backup", "caught", TRUE, FALSE)
  /\ UNCHANGED <<storeVars, clockVars, proc, lastResult, calls, faults, calVars,
                 botVars, migrations, schema, migLog, calLog, bookH, listing,
                 conn>>

\* '0 * * * *': try { markPastSessionsCompleted() } catch { log }
\* dbOk: getDatabase() and the UPDATE raise no error
SweepTask(dbOk) ==
  /\ Fires("sweep")
  /\ IF dbOk
     THEN /\ bookings' = Swept(bookings, now, tz)
          /\ sched' = Fired("sweep", "ok", FALSE, FALSE)
     ELSE /\ bookings' = bookings
          /\ sched' = Fired("sweep", "caught", TRUE, FALSE)
  /\ UNCHANGED <<history, clockVars, proc, lastResult, calls, faults, calVars,
                 botVars, migrations, schema, migLog, calLog, extVars>>

\* '0 */6 * * *': healthCheck() is awaited with no try/catch around it
HealthTask(queryOk, statOk) ==
  /\ Fires("health")
  /\ LET health == HealthCheck(queryOk, statOk) IN
     sched' = Fired("health", health, health # "healthy", health = "throws")
  /\ UNCHANGED <<storeVars, clockVars, proc, lastResult, calls, faults, calVars,
                 botVars, migrations, schema, migLog, calLog, extVars>>

-----------------------------------------------------------------------------
(* The store under concurrent callers *)

Init ==
  /\ bookings = <<>>
  /\ history = <<>>
  /\ now = At(0, 12, 0)
  /\ tz = HostOffset
  /\ proc = [c \in Callers |-> Idle]
  /\ lastResult = NoCall
  /\ calls = 0
  /\ faults = 0
  /\ calendar = {}
  /\ issued = 0
  /\ authTokens = {}
  /\ oauth = NoTokens
  /\ cancelH = Idle
  /\ bookH = [u \in Users |-> NoBookSlot]
  /\ listing = NoListing
  /\ backups = {}
  /\ conn = Connected
  /\ lastRoute = "none"
  /\ sched = SchedulerStarted(TRUE)
  /\ migrations = Versions
  /\ schema = Versions
  /\ migLog = NoMigrationCall
  /\ calLog = NoCalendarCall

DbUpdateBooking ==
  \E c \in Callers, id \in 1..MaxBookings, updates \in UpdateInputs :
    /\ calls < MaxCalls
    /\ calls' = calls + 1
    /\ UpdateBookingCall(c, id, updates)

DbCancelBooking ==
  \E c \in Callers, id \in 1..MaxBookings :
    /\ calls < MaxCalls
    /\ calls' = calls + 1
    /\ DbCancelBookingCall(c, id)

Resume ==
  /\ \E c \in Callers, historyThrows \in BOOLEAN :
       \/ DbCancelBookingResume(c)
       \/ UpdateLoad(c)
       \/ UpdateWrite(c, historyThrows)
       \/ CancelLog(c, historyThrows)
  /\ UNCHANGED calls

\* no repository call is suspended at one of its awaits
NoCallInFlight == \A c \in Callers : proc[c] = Idle

\* the hourly cron callback.  It is started by a timer, and every await of the
\* repository is on a promise that is already settled (the statements run
\* synchronously), so a call in flight resumes as a promise job: the event
\* loop runs all of them to their end before it runs the next timer.
SweepCallback ==
  /\ NoCallInFlight
  /\ MarkPastSessionsCompleted

Next ==
  \/ DbCreateBooking
  \/ DbUpdateBooking
  \/ DbCancelBooking
  \/ Resume
  \/ SweepCallback
  \/ Tick

Spec == Init /\ [][Next]_vars

-----------------------------------------------------------------------------
(* GoogleCalendarService *)

AccessTokens == {"a1", "a2"}

\* the credential set the provider answers a code exchange or a refresh with
Credentials(a) ==
  [accessToken |-> a, refreshToken |-> "r1", expiryDate |-> now + 60]

\* INSERT INTO auth_tokens with the id left to AUTOINCREMENT
InsertAutoIncrement(table, row) ==
  table \cup {[row EXCEPT !.id = Cardinality(table) + 1]}

\* INSERT OR REPLACE INTO auth_tokens: a row with the same primary key is
\* deleted before the new row is inserted
InsertOrReplace(table, row) ==
  {r \in table : r.id # row.id} \cup {row}

\* VALUES (1, ?, ?, ?, CURRENT_TIMESTAMP)
TokenRow(credentials) ==
  [id           |-> 1,
   accessToken  |-> credentials.accessToken,
   refreshToken |-> credentials.refreshToken,
   expiryDate   |-> credentials.expiryDate]

\* Database.storeTokens
StoreTokens(credentials) ==
  authTokens' = InsertOrReplace(authTokens, TokenRow(credentials))

\* Database.getTokens: SELECT accessToken, refreshToken, expiryDate
\*                     FROM auth_tokens WHERE id = 1   (|| null)
GetTokens(table) ==
  IF \E r \in table : r.id = 1
  THEN LET r == CHOOSE r \in table : r.id = 1 IN
       [accessToken |-> r.accessToken, refreshToken |-> r.refreshToken,
        expiryDate |-> r.expiryDate]
  ELSE NoTokens

\* the operation numbered next in the log of the calendar service
CalendarCallAllowed == calLog.n < MaxCalendarCalls

\* handleAuthCallback: exchange the code, setCredentials, storeTokens
HandleAuthCallback(a) ==
  /\ oauth' = Credentials(a)
  /\ StoreTokens(Credentials(a))
  /\ calLog' = [op |-> "handleAuthCallback", n |-> calLog.n + 1, outcome |-> "ok",
                refresh |-> "none", exchanges |-> 0, requests |-> 0,
                stored |-> Credentials(a)]

\* how refreshTokenIfNeeded may end: both statements succeed, the exchange
\* with the provider fails, or storeTokens raises an error
RefreshOutcomes == {"ok", "refreshFails", "storeFails"}

\* the client holds a refresh token (refreshAccessToken throws without one)
\* and neither the exchange nor storeTokens fails
RefreshSucceeds(ok) == ok = "ok" /\ oauth # NoTokens

\* the credential set refreshAccessToken answers with: new access token and
\* expiry, the refresh token the client holds
Refreshed(a) == [Credentials(a) EXCEPT !.refreshToken = oauth.refreshToken]

\* refreshTokenIfNeeded: refreshAccessToken, setCredentials, storeTokens, with
\* no look at the expiry of the token held
RefreshTokenIfNeeded(ok, a) ==
  IF oauth = NoTokens \/ ok = "refreshFails"
  THEN UNCHANGED <<oauth, authTokens>>
  ELSE /\ oauth' = Refreshed(a)
       /\ IF ok = "storeFails"
          THEN UNCHANGED authTokens
          ELSE StoreTokens(oauth')

\* a catch that throws the error it caught
RethrowCause(cause) == cause

\* refreshTokenIfNeeded's catch: whatever was thrown becomes
\* Error('Authentication failed. Please re-authenticate.')
RefreshError(cause) == "AuthenticationFailed"

\* the log entry of a calendar operation: refreshTokenIfNeeded, then one
\* request to the calendar API; the operation's catch rethrows what it caught.
\* requestOk: the calendar API answers the request without error.
CalendarLogged(op, ok, a, requestOk) ==
  [op        |-> op,
   n         |-> calLog.n + 1,
   outcome   |-> IF ~RefreshSucceeds(ok) THEN RefreshError("error")
                 ELSE IF requestOk THEN "ok" ELSE "error",
   refresh   |-> IF oauth = NoTokens THEN "noRefreshToken" ELSE ok,
   exchanges |-> IF oauth = NoTokens THEN 0 ELSE 1,
   requests  |-> IF RefreshSucceeds(ok) THEN 1 ELSE 0,
   stored    |-> IF RefreshSucceeds(ok) THEN Refreshed(a) ELSE NoTokens]

\* createEvent: refreshTokenIfNeeded, then events.insert, which answers with
\* the id of the new event
CreateEvent(refreshOk, a, insertOk) ==
  /\ CalendarCallAllowed
  /\ RefreshTokenIfNeeded(refreshOk, a)
  /\ calLog' = CalendarLogged("createEvent", refreshOk, a, insertOk)
  /\ IF RefreshSucceeds(refreshOk) /\ insertOk
     THEN /\ issued < MaxEvents
          /\ issued' = issued + 1
          /\ calendar' = calendar \cup {issued + 1}
     ELSE UNCHANGED <<calendar, issued>>

\* getAvailableDaySlots, getAvailableTimeSlots, getAvailableDurationSlots,
\* getAvailableSlots: refreshTokenIfNeeded, then events.list
ListEvents(refreshOk, a, listOk) ==
  /\ CalendarCallAllowed
  /\ RefreshTokenIfNeeded(refreshOk, a)
  /\ calLog' = CalendarLogged("listEvents", refreshOk, a, listOk)
  /\ UNCHANGED <<calendar, issued>>

\* updateEvent: refreshTokenIfNeeded, then events.patch
UpdateEvent(eventId, refreshOk, a, patchOk) ==
  /\ CalendarCallAllowed
  /\ RefreshTokenIfNeeded(refreshOk, a)
  /\ calLog' = CalendarLogged("updateEvent", refreshOk, a,
                              patchOk /\ eventId \in calendar)
  /\ UNCHANGED <<calendar, issued>>

\* deleteEvent: refreshTokenIfNeeded, then events.delete
DeleteEvent(eventId, refreshOk, a, deleteOk) ==
  /\ CalendarCallAllowed
  /\ RefreshTokenIfNeeded(refreshOk, a)
  /\ calLog' = CalendarLogged("deleteEvent", refreshOk, a,
                              deleteOk /\ eventId \in calendar)
  /\ calendar' = IF RefreshSucceeds(refreshOk) /\ deleteOk
                 THEN calendar \ {eventId} ELSE calendar
  /\ UNCHANGED issued

-----------------------------------------------------------------------------
(* GoogleCalendarService: the slot listings *)

\* A moment is a number of seconds of the host's local time since 00:00 of
\* day 0; day 0 is a Sunday.  Milliseconds follow the seconds in everything
\* the listings do, so they are left out.
SecondsPerDay == MinutesPerDay * 60

\* moment.format('YYYY-MM-DD')
FormatDate(m) == m \div SecondsPerDay

\* moment.format('HH:mm'), as minutes since midnight
FormatTime(m) == (m % SecondsPerDay) \div 60

\* moment.format('YYYY-MM-DD HH:mm')
FormatKey(m) == <<FormatDate(m), FormatTime(m)>>

\* moment('YYYY-MM-DD HH:mm' string): seconds are zero
ParseKey(k) == k[1] * SecondsPerDay + k[2] * 60

\* moment('YYYY-MM-DD' string): midnight of that date
ParseDate(d) == d * SecondsPerDay

\* moment.day(): 0 is Sunday
DayOfWeek(m) == FormatDate(m) % 7

\* moment.add(n, 'days')
AddDays(m, n) == m + n * SecondsPerDay

\* moment.clone().hour(hour).minute(0): hour and minute are set, the seconds
\* of the moment are kept
HourMinute(m, hour) ==
  FormatDate(m) * SecondsPerDay + hour * 60 * 60 + (m % 60)

\* a comparison that also counts the same instant as earlier
IsSameOrBefore(a, b) == a <= b

\* moment.isBefore(other)
IsBefore(a, b) == a < b

\* moment.isBefore(other, 'day')
IsBeforeDay(a, b) == FormatDate(a) < FormatDate(b)

\* const workingHours = [8, 9, 10, 11, 14, 15, 16, 17, 18, 19]
workingHours == <<8, 9, 10, 11, 14, 15, 16, 17, 18, 19>>

\* a listing that marks every slot available
AlwaysAvailable(slotKey, busySlots) == TRUE

\* available: !busySlots.has(slotKey)
Available(slotKey, busySlots) == slotKey \notin busySlots

\* availableSlots.filter(slot => slot.available)
FilterAvailable(availableSlots) ==
  SelectSeq(availableSlots, LAMBDA slot : slot.available)

\* for (const hour of workingHours): slotTime is the hour set on the moment
\* base; a slotTime before now is skipped, every other is pushed with its
\* date, its time and whether its key is free
HourSlots(base, nowM, busySlots) ==
  LET slotTimes == [i \in DOMAIN workingHours |-> HourMinute(base, workingHours[i])]
      kept      == SelectSeq(slotTimes, LAMBDA slotTime : ~IsBefore(slotTime, nowM))
  IN [i \in DOMAIN kept |->
        [date      |-> FormatDate(kept[i]),
         time      |-> FormatTime(kept[i]),
         available |-> Available(FormatKey(kept[i]), busySlots)]]

\* if (currentDate.isBefore(now, 'day') || currentDate.day() === 0) continue
SkipsDay(currentDate, nowM) ==
  IsBeforeDay(currentDate, nowM) \/ DayOfWeek(currentDate) = 0

\* for (let day = 0; day < daysAhead; day++) of getAvailableSlots, from day on:
\* currentDate is a new read of the clock (later) moved day days ahead
RECURSIVE SlotsFromDay(_, _, _, _, _)
SlotsFromDay(day, daysAhead, nowM, later, busySlots) ==
  IF day >= daysAhead
  THEN <<>>
  ELSE LET currentDate == AddDays(later, day) IN
       (IF SkipsDay(currentDate, nowM)
        THEN <<>>
        ELSE HourSlots(currentDate, nowM, busySlots))
         \o SlotsFromDay(day + 1, daysAhead, nowM, later, busySlots)

\* getAvailableSlots(daysAhead), the clock read nowM before events.list and
\* later after it, busySlots the keys of the events the calendar answered
GetAvailableSlots(daysAhead, nowM, later, busySlots) ==
  FilterAvailable(SlotsFromDay(0, daysAhead, nowM, later, busySlots))

\* getAvailableDurationSlots(day): bookingDate is the day formatted as
\* 'YYYY-MM-DD HH:mm' and parsed again, which is its midnight
GetAvailableDurationSlots(day, nowM, busySlots) ==
  LET date        == FormatKey(ParseDate(day))
      bookingDate == ParseKey(date)
  IN FilterAvailable(HourSlots(bookingDate, nowM, busySlots))

\* getAvailableTimeSlots(time): the third field of time is the day; the loop
\* is that of getAvailableDurationSlots
GetAvailableTimeSlots(day, nowM, busySlots) ==
  LET date        == FormatKey(ParseDate(day))
      bookingDate == ParseKey(date)
  IN FilterAvailable(HourSlots(bookingDate, nowM, busySlots))

\* getAvailableDaySlots(duration, daysAhead): a day is busy when an event the
\* calendar answered starts on it; every day of the window is pushed, the
\* free ones are returned (the duration is handed through and left out)
GetAvailableDaySlots(daysAhead, later, busySlots) ==
  LET busyDays == {k[1] : k \in busySlots}
      pushed   == [i \in 1..daysAhead |->
                     LET currentDate == FormatDate(AddDays(later, i - 1)) IN
                     [date |-> currentDate, available |-> currentDate \notin busyDays]]
  IN FilterAvailable(pushed)

\* a listing: refreshTokenIfNeeded and events.list, then the slots computed
\* from the answer; an error of either is logged and rethrown
Listed(op, arg, slots) ==
  [listing EXCEPT !.op = op, !.arg = arg, !.outcome = calLog'.outcome,
                  !.result = IF calLog'.outcome = "ok" THEN slots ELSE <<>>]

ListAvailableSlots(daysAhead, refreshOk, a, listOk) ==
  /\ ListEvents(refreshOk, a, listOk)
  /\ listing' = Listed("getAvailableSlots", daysAhead,
       GetAvailableSlots(daysAhead, listing.now, listing.later, listing.busy))

ListAvailableDaySlots(daysAhead, refreshOk, a, listOk) ==
  /\ ListEvents(refreshOk, a, listOk)
  /\ listing' = Listed("getAvailableDaySlots", daysAhead,
       GetAvailableDaySlots(daysAhead, listing.later, listing.busy))

ListAvailableTimeSlots(day, refreshOk, a, listOk) ==
  /\ ListEvents(refreshOk, a, listOk)
  /\ listing' = Listed("getAvailableTimeSlots", day,
       GetAvailableTimeSlots(day, listing.now, listing.busy))

ListAvailableDurationSlots(day, refreshOk, a, listOk) ==
  /\ ListEvents(refreshOk, a, listOk)
  /\ listing' = Listed("getAvailableDurationSlots", day,
       GetAvailableDurationSlots(day, listing.now, listing.busy))

-----------------------------------------------------------------------------
(* BotService *)

\* setupCommands: the handler bot.action(...) registers for a callback payload
Route(data) ==
  CASE data = "book_"                    -> "handleBookSlot"
    [] data = "show_available_slots"     -> "showAvailableSlots"
    [] data = "show_available_day_slots" -> "showAvailableDaySlots"
    [] data = "main_menu"                -> "showMainMenu"
    [] OTHER                             -> "none"

\* the payloads of the buttons the bot renders (ids and dates left off)
Payloads ==
  {"book_", "show_available_slots", "show_available_day_slots", "main_menu",
   "my_bookings", "cancel_", "modify_"}

\* a user presses a button: Telegraf runs the handler registered for its payload
CallbackQuery(data) ==
  /\ lastRoute' = Route(data)
  /\ UNCHANGED <<storeVars, clockVars, proc, lastResult, calls, faults,
                 calVars, cancelH, sysVars, calLog, extVars>>

\* an ownership check that lets every actor through
AuthorizedAnyActor(booking, u) == booking # NoBooking

\* !booking || booking.telegramUserId !== ctx.from?.id.toString(), negated
Authorized(booking, u) ==
  booking # NoBooking /\ booking.telegramUserId = u

\* handleCancelBooking(ctx) with ctx.from.id = u and payload 'cancel_<id>', up
\* to the first external call: getBookingById, the ownership check, and
\* deleteEvent up to its first await when the booking has an event
CancelEnter(u, id) ==
  /\ cancelH.pc \in {"idle", "done"}
  /\ LET booking == GetBookingById(id) IN
     cancelH' =
       [pc      |-> IF ~Authorized(booking, u)
                    THEN "done"
                    ELSE IF booking.googleEventId # NoEvent THEN "refresh"
                    ELSE "reply",
        user    |-> u,
        id      |-> id,
        booking |-> booking,
        deleted |-> "no",
        reply   |-> IF ~Authorized(booking, u)
                    THEN "Booking not found or not authorized"
                    ELSE "none",
        coach   |-> "no"]
  /\ UNCHANGED <<storeVars, clockVars, proc, lastResult, calls, faults,
                 calVars, lastRoute, sysVars, calLog, extVars>>

\* deleteEvent: refreshTokenIfNeeded; its failure is caught by the handler's
\* catch, which replies 'Error cancelling booking. Please try again.'
CancelRefresh(ok, a) ==
  /\ cancelH.pc = "refresh"
  /\ RefreshTokenIfNeeded(ok, a)
  /\ cancelH' =
       IF RefreshSucceeds(ok)
       THEN [cancelH EXCEPT !.pc = "delete"]
       ELSE [cancelH EXCEPT !.pc = "done", !.deleted = "failed",
                            !.reply = "Error cancelling booking"]
  /\ UNCHANGED <<storeVars, clockVars, proc, lastResult, calls, faults,
                 calendar, issued, lastRoute, sysVars, calLog, extVars>>

\* deleteEvent: events.delete; it fails when the calendar does not answer or
\* does not hold the event
CancelDelete(ok) ==
  LET ev == cancelH.booking.googleEventId IN
  /\ cancelH.pc = "delete"
  /\ IF ok /\ ev \in calendar
     THEN /\ calendar' = calendar \ {ev}
          /\ cancelH' = [cancelH EXCEPT !.pc = "reply", !.deleted = "yes"]
     ELSE /\ calendar' = calendar
          /\ cancelH' = [cancelH EXCEPT !.pc = "done", !.deleted = "failed",
                                        !.reply = "Error cancelling booking"]
  /\ UNCHANGED <<storeVars, clockVars, proc, lastResult, calls, faults,
                 issued, authTokens, oauth, lastRoute, sysVars, calLog, extVars>>

\* the store call is commented out (// await this.db.cancelBooking(bookingId));
\* the handler replies 'Booking Cancelled'
CancelReply ==
  /\ cancelH.pc = "reply"
  /\ cancelH' = [cancelH EXCEPT !.pc = "notify", !.reply = "Booking Cancelled"]
  /\ UNCHANGED <<storeVars, clockVars, proc, lastResult, calls, faults,
                 calVars, lastRoute, sysVars, calLog, extVars>>

\* notifyCoach: sendMessage to the coach, its failure logged and swallowed
CancelNotify(sent) ==
  /\ cancelH.pc = "notify"
  /\ cancelH' = [cancelH EXCEPT !.pc = "done",
                                !.coach = IF sent THEN "notified" ELSE "failed"]
  /\ UNCHANGED <<storeVars, clockVars, proc, lastResult, calls, faults,
                 calVars, lastRoute, sysVars, calLog, extVars>>

\* slots.slice(0, 20)
Slice(slots) == SubSeq(slots, 1, IF Len(slots) < 20 THEN Len(slots) ELSE 20)

\* Markup.button.callback('Main Menu', 'main_menu')
MainMenuButton == <<Word("main"), Underscore, Word("menu")>>

\* createSlotsKeyboard: for each of the first 20 slots a button with the
\* payload `book_${slot.date}`, then the Main Menu button
CreateSlotsKeyboard(slots) ==
  [i \in 1..Len(Slice(slots)) |->
     <<Word("book"), Underscore, DateText(slots[i].date)>>] \o <<MainMenuButton>>

\* createDaySlotsKeyboard: for each of the first 20 slots a button with the
\* payload `book_day_${slot.date}`, then the Main Menu button
CreateDaySlotsKeyboard(slots) ==
  [i \in 1..Len(Slice(slots)) |->
     <<Word("book"), Underscore, Word("day"), Underscore,
       DateText(slots[i].date)>>] \o <<MainMenuButton>>

\* the payloads of the buttons showAvailableSlots or showAvailableDaySlots
\* replied with for the listing computed last: with no slot, or an error of
\* the listing, the Main Menu button alone
Keyboard ==
  CASE listing.op = "getAvailableSlots" ->
         IF listing.outcome = "ok" /\ listing.result # <<>>
         THEN CreateSlotsKeyboard(listing.result) ELSE <<MainMenuButton>>
    [] listing.op = "getAvailableDaySlots" ->
         IF listing.outcome = "ok" /\ listing.result # <<>>
         THEN CreateDaySlotsKeyboard(listing.result) ELSE <<MainMenuButton>>
    [] OTHER -> <<>>

\* bot.action(/^book_(.+)$/, ...): whether the payload is handed to
\* handleBookSlot
MatchesBook(data) ==
  Len(data) >= 3 /\ data[1] = Word("book") /\ data[2] = Underscore

\* callbackData.split('_')
RECURSIVE Split(_)
Split(text) ==
  IF \E k \in 1..Len(text) : text[k] = Underscore
  THEN LET k == CHOOSE k \in 1..Len(text) :
                  /\ text[k] = Underscore
                  /\ \A j \in 1..(k - 1) : text[j] # Underscore
       IN <<SubSeq(text, 1, k - 1)>> \o Split(SubSeq(text, k + 1, Len(text)))
  ELSE <<text>>

\* element i of an array, counted from 0: undefined past its end
Element(array, i) ==
  IF i + 1 \in DOMAIN array THEN array[i + 1] ELSE Undefined

\* handleBookSlot(ctx) with ctx.from.id = u and a payload whose fields after
\* 'book' are date and time, up to its first await: the event object is
\* built and createEvent is called
BookEnter(u, date, time) ==
  /\ bookH[u].pc \in {"idle", "done"}
  /\ bookH' = [bookH EXCEPT ![u] =
       [NoBookSlot EXCEPT !.pc = "createEvent", !.date = date, !.time = time]]
  /\ UNCHANGED <<storeVars, clockVars, proc, lastResult, calls, faults,
                 calVars, botVars, sysVars, calLog, listing, fileVars>>

\* a user presses a button of the keyboard: Telegraf hands a payload that
\* matches /^book_(.+)$/ to handleBookSlot, which takes date and time from it
\* by const [, date, time] = callbackData.split('_')
BookPressed(u, data) ==
  /\ MatchesBook(data)
  /\ LET parts == Split(data) IN
       BookEnter(u, Element(parts, 1), Element(parts, 2))

\* a handler that carries on after createEvent whatever its outcome
IgnoreCreateEventFailure(outcome) == "createBooking"

\* const googleEventId = await this.calendar.createEvent(calendarEvent):
\* a rejection leaves the try block for its catch, a result is followed by
\* this.db.createBooking
AfterCreateEvent(outcome) ==
  IF outcome = "ok" THEN "createBooking" ELSE "catch"

\* createEvent answers the handler: the id of the new event, or an error
BookCreateEvent(u, refreshOk, a, insertOk) ==
  /\ bookH[u].pc = "createEvent"
  /\ CreateEvent(refreshOk, a, insertOk)
  /\ bookH' = [bookH EXCEPT ![u] =
       [@ EXCEPT !.pc = AfterCreateEvent(calLog'.outcome),
                 !.googleEventId = IF calLog'.outcome = "ok"
                                   THEN issued' ELSE NoEvent,
                 !.error = IF calLog'.outcome = "ok"
                           THEN "none" ELSE calLog'.outcome]]
  /\ UNCHANGED <<storeVars, clockVars, proc, lastResult, calls, faults,
                 botVars, sysVars, listing, fileVars>>

\* createBooking when sessionDate or sessionTime is undefined: the columns are
\* NOT NULL, so the INSERT raises an error, which is not
\* SQLITE_CONSTRAINT_UNIQUE and is rethrown; nothing is stored
CreateBookingOf(u, date, time, ev, historyThrows) ==
  IF date = Undefined \/ time = Undefined
  THEN /\ lastResult' = Result("createBooking",
                               TranslateError("SQLITE_CONSTRAINT_NOTNULL"),
                               0, date, time, <<>>)
       /\ UNCHANGED <<storeVars, faults>>
  ELSE CreateBooking(u, date, time, ev, historyThrows)

\* await this.db.createBooking({telegramUserId, sessionDate: date,
\* sessionTime: time, googleEventId, status: 'active'}); its error is caught
\* by the handler's catch
BookCreateBooking(u, historyThrows) ==
  /\ bookH[u].pc = "createBooking"
  /\ calls < MaxCalls
  /\ calls' = calls + 1
  /\ CreateBookingOf(u, bookH[u].date, bookH[u].time, bookH[u].googleEventId,
                     historyThrows)
  /\ bookH' = [bookH EXCEPT ![u] =
       IF lastResult'.outcome = "ok"
       THEN [@ EXCEPT !.pc = "reply", !.bookingId = lastResult'.id]
       ELSE [@ EXCEPT !.pc = "catch", !.error = lastResult'.outcome]]
  /\ UNCHANGED <<clockVars, proc, calVars, botVars, sysVars, calLog, listing,
                 fileVars>>

\* await ctx.reply('Successfully booked! ...'); a failure to send it is caught
\* by the handler's catch
BookReply(u, sent) ==
  /\ bookH[u].pc = "reply"
  /\ bookH' = [bookH EXCEPT ![u] =
       IF sent
       THEN [@ EXCEPT !.pc = "notify", !.reply = "Successfully booked"]
       ELSE [@ EXCEPT !.pc = "catch", !.error = "reply"]]
  /\ UNCHANGED <<storeVars, clockVars, proc, lastResult, calls, faults,
                 calVars, botVars, sysVars, calLog, listing, fileVars>>

\* a notifyCoach that lets the error of sendMessage escape
NotifyCoachThrows(sent) == IF sent THEN "returned" ELSE "thrown"

\* notifyCoach: try { sendMessage(coachId, message) } catch { console.error }
NotifyCoach(sent) == "returned"

\* await this.notifyCoach('New booking! ...'), the last statement of the try
BookNotify(u, sent) ==
  /\ bookH[u].pc = "notify"
  /\ bookH' = [bookH EXCEPT ![u] =
       IF NotifyCoach(sent) = "returned"
       THEN [@ EXCEPT !.pc = "done",
                      !.coach = IF sent THEN "notified" ELSE "failed"]
       ELSE [@ EXCEPT !.pc = "catch", !.coach = "failed", !.error = "notify"]]
  /\ UNCHANGED <<storeVars, clockVars, proc, lastResult, calls, faults,
                 calVars, botVars, sysVars, calLog, listing, fileVars>>

\* a catch that deletes the event its try block created
CatchDeletesEvent(events, h) == events \ {h.googleEventId}

\* the events of the calendar after the handler's catch: the catch calls
\* console.error and ctx.reply and makes no call to the calendar
CatchLeavesEvents(events, h) == events

\* catch (error): console.error, then the reply 'Sorry, there was an error
\* booking your session. ...'; nothing the try did is undone
BookCatch(u) ==
  /\ bookH[u].pc = "catch"
  /\ bookH' = [bookH EXCEPT ![u] =
       [@ EXCEPT !.pc = "done", !.reply = "Sorry, there was an error"]]
  /\ calendar' = CatchLeavesEvents(calendar, bookH[u])
  /\ UNCHANGED <<storeVars, clockVars, proc, lastResult, calls, faults,
                 issued, authTokens, oauth, botVars, sysVars, calLog, listing,
                 fileVars>>

-----------------------------------------------------------------------------
(* The bot's cancel flow over the store and the external calendar *)

AuthCallback ==
  \E a \in AccessTokens :
    /\ CalendarCallAllowed
    /\ HandleAuthCallback(a)
    /\ UNCHANGED <<storeVars, clockVars, proc, lastResult, calls, faults,
                   calendar, issued, botVars, sysVars, extVars>>

CalendarCreateEvent ==
  \E refreshOk \in RefreshOutcomes, a \in AccessTokens, insertOk \in BOOLEAN :
    /\ CreateEvent(refreshOk, a, insertOk)
    /\ UNCHANGED <<storeVars, clockVars, proc, lastResult, calls, faults, botVars,
                   sysVars, extVars>>

\* Database.createBooking with the reference of an event of the calendar
BotCreateBooking ==
  \E u \in Users, d \in Dates, t \in SessionTimes, ev \in calendar \cup {NoEvent} :
    /\ calls < MaxCalls
    /\ calls' = calls + 1
    /\ CreateBooking(u, d, t, ev, FALSE)
    /\ UNCHANGED <<clockVars, proc, calVars, botVars, sysVars, calLog, extVars>>

ButtonPressed == \E data \in Payloads : CallbackQuery(data)

HandleCancelBooking ==
  \/ \E u \in Users, id \in 1..MaxBookings : CancelEnter(u, id)
  \/ \E ok \in RefreshOutcomes, a \in AccessTokens : CancelRefresh(ok, a)
  \/ \E ok \in BOOLEAN : CancelDelete(ok)
  \/ CancelReply
  \/ \E sent \in BOOLEAN : CancelNotify(sent)

NextBot ==
  \/ AuthCallback
  \/ CalendarCreateEvent
  \/ BotCreateBooking
  \/ ButtonPressed
  \/ HandleCancelBooking

SpecBot == Init /\ [][NextBot]_vars

-----------------------------------------------------------------------------
(* The slot listings over every clock reading and calendar answer *)

\* wall-clock times of the reference instant, in seconds since midnight:
\* before the first template hour, on the top of one, seconds and minutes
\* past the top of one, between the two blocks, past the top of the last one
ReferenceTimes ==
  {7 * 3600, 9 * 3600, 9 * 3600 + 5, 9 * 3600 + 20 * 60, 12 * 3600 + 30 * 60,
   19 * 3600 + 5}

\* the reference instants: those times on a Friday (day 5) and a Saturday
ReferenceInstants ==
  {d * SecondsPerDay + s : d \in {5, 6}, s \in ReferenceTimes}

\* seconds between a listing's first read of the clock and its second
Lags == {0, 3}

\* the answers of the calendar, as sets of start keys of events: no event,
\* one on Monday 09:00, events on the Friday and the Saturday with one off the
\* template, events on the Saturday, the Sunday and the Monday
BusySets ==
  {{},
   {<<8, 9 * 60>>},
   {<<5, 10 * 60>>, <<5, 9 * 60 + 30>>, <<6, 9 * 60>>},
   {<<6, 9 * 60>>, <<7, 8 * 60>>, <<8, 9 * 60>>}}

\* the days a single-day listing is asked for: Friday to Monday
QueryDays == 5..8

\* the clock stands at a reference instant and the calendar holds some events
InitSlots ==
  /\ bookings = <<>>
  /\ history = <<>>
  /\ listing \in {[NoListing EXCEPT !.now = t, !.later = t + lag, !.busy = B] :
                    t \in ReferenceInstants, lag \in Lags, B \in BusySets}
  /\ tz = HostOffset
  /\ now = (listing.now \div 60) - tz
  /\ proc = [c \in Callers |-> Idle]
  /\ lastResult = NoCall
  /\ calls = 0
  /\ faults = 0
  /\ calendar = {}
  /\ issued = 0
  /\ authTokens = {}
  /\ oauth = NoTokens
  /\ cancelH = Idle
  /\ bookH = [u \in Users |-> NoBookSlot]
  /\ backups = {}
  /\ conn = Connected
  /\ lastRoute = "none"
  /\ sched = SchedulerStarted(TRUE)
  /\ migrations = Versions
  /\ schema = Versions
  /\ migLog = NoMigrationCall
  /\ calLog = NoCalendarCall

SlotListing ==
  \E refreshOk \in RefreshOutcomes, a \in AccessTokens, listOk \in BOOLEAN :
    /\ \/ \E daysAhead \in 1..MaxDaysAhead :
            ListAvailableSlots(daysAhead, refreshOk, a, listOk)
       \/ \E daysAhead \in 1..MaxDaysAhead :
            ListAvailableDaySlots(daysAhead, refreshOk, a, listOk)
       \/ \E day \in QueryDays :
            ListAvailableTimeSlots(day, refreshOk, a, listOk)
       \/ \E day \in QueryDays :
            ListAvailableDurationSlots(day, refreshOk, a, listOk)
    /\ UNCHANGED <<storeVars, clockVars, proc, lastResult, calls, faults,
                   botVars, sysVars, bookH, fileVars>>

NextSlots ==
  \/ AuthCallback
  \/ SlotListing

SpecSlots == InitSlots /\ [][NextSlots]_vars

-----------------------------------------------------------------------------
(* The bot's booking flow: users ask for a listing, press the buttons of its  *)
(* keyboard, each press runs handleBookSlot, and the invocations of          *)
(* different users interleave at their awaits                                *)

\* showAvailableSlots: getAvailableSlots(14), then the reply with the keyboard
ShowAvailableSlots ==
  \E refreshOk \in RefreshOutcomes, a \in AccessTokens, listOk \in BOOLEAN :
    /\ ListAvailableSlots(MaxDaysAhead, refreshOk, a, listOk)
    /\ UNCHANGED <<storeVars, clockVars, proc, lastResult, calls, faults,
                   botVars, sysVars, bookH, fileVars>>

\* showAvailableDaySlots: getAvailableDaySlots('14'), which looks the default
\* number of days ahead, then the reply with the keyboard
ShowAvailableDaySlots ==
  \E refreshOk \in RefreshOutcomes, a \in AccessTokens, listOk \in BOOLEAN :
    /\ ListAvailableDaySlots(MaxDaysAhead, refreshOk, a, listOk)
    /\ UNCHANGED <<storeVars, clockVars, proc, lastResult, calls, faults,
                   botVars, sysVars, bookH, fileVars>>

HandleBookSlot ==
  \/ \E u \in Users, i \in DOMAIN Keyboard : BookPressed(u, Keyboard[i])
  \/ \E u \in Users, refreshOk \in RefreshOutcomes, a \in AccessTokens,
        insertOk \in BOOLEAN : BookCreateEvent(u, refreshOk, a, insertOk)
  \/ \E u \in Users, historyThrows \in BOOLEAN : BookCreateBooking(u, historyThrows)
  \/ \E u \in Users, sent \in BOOLEAN : BookReply(u, sent)
  \/ \E u \in Users, sent \in BOOLEAN : BookNotify(u, sent)
  \/ \E u \in Users : BookCatch(u)

\* the instants users ask for a listing at: a Friday at 07:00, a Saturday
\* five seconds past 19:00
BookInstants ==
  {5 * SecondsPerDay + 7 * 3600, 6 * SecondsPerDay + 19 * 3600 + 5}

\* the bot after the operator has authorized it: the client holds a
\* credential set and auth_tokens its row; the clock stands at a reference
\* instant and the calendar answers a listing with some events
InitBook ==
  /\ bookings = <<>>
  /\ history = <<>>
  /\ listing \in {[NoListing EXCEPT !.now = t, !.later = t, !.busy = B] :
                    t \in BookInstants, B \in BusySets}
  /\ tz = HostOffset
  /\ now = (listing.now \div 60) - tz
  /\ proc = [c \in Callers |-> Idle]
  /\ lastResult = NoCall
  /\ calls = 0
  /\ faults = 0
  /\ calendar = {}
  /\ issued = 0
  /\ oauth = Credentials("a1")
  /\ authTokens = {TokenRow(oauth)}
  /\ cancelH = Idle
  /\ bookH = [u \in Users |-> NoBookSlot]
  /\ backups = {}
  /\ conn = Connected
  /\ lastRoute = "none"
  /\ sched = SchedulerStarted(TRUE)
  /\ migrations = Versions
  /\ schema = Versions
  /\ migLog = NoMigrationCall
  /\ calLog = NoCalendarCall

NextBook ==
  \/ ShowAvailableSlots
  \/ ShowAvailableDaySlots
  \/ HandleBookSlot

SpecBook == InitBook /\ [][NextBook]_vars

-----------------------------------------------------------------------------
(* The completion sweep over stores, clock readings and host time zones *)

\* offsets of the host's local time from UTC, in minutes (UTC-5, UTC, UTC+3)
HostOffsets == {0 - 5 * 60, 0, HostOffset}

\* clock readings (UTC) on both sides of the sessions and of the midnights of
\* the host zones
SweepInstants ==
  {At(1, 3, 30), At(1, 12, 0), At(1, 22, 30), At(MaxDay + 1, 1, 30)}

\* the row and the history entry a successful createBooking left at instant t
CreatedRow(id, u, date, time, t) ==
  [id             |-> id,
   telegramUserId |-> u,
   sessionDate    |-> date,
   sessionTime    |-> time,
   googleEventId  |-> NoEvent,
   status         |-> "active",
   createdAt      |-> t,
   updatedAt      |-> t]

CreatedEntry(row) ==
  HistoryEntry(row.id, "created", NoValues,
               NewBooking(row.telegramUserId, row.sessionDate, row.sessionTime,
                          row.googleEventId),
               row.telegramUserId)

\* the bookings tables that zero, one or two successful createBooking calls leave
InitialStores ==
  {<<>>}
    \cup {<<CreatedRow(1, u, d, t, At(0, 12, 0))>> :
            u \in Users, d \in Dates, t \in SessionTimes}
    \cup {<<CreatedRow(1, u1, d1, t1, At(0, 12, 0)),
            CreatedRow(2, u2, d2, t2, At(0, 12, 0))>> :
            u1 \in {"u1"}, u2 \in Users,
            d1 \in Dates, d2 \in Dates, t1 \in {9 * 60}, t2 \in SessionTimes \ {9 * 60}}

InitSweep ==
  /\ bookings \in InitialStores
  /\ history = [i \in 1..Len(bookings) |-> CreatedEntry(bookings[i])]
  /\ now \in SweepInstants
  /\ tz \in HostOffsets
  /\ proc = [c \in Callers |-> Idle]
  /\ lastResult = NoCall
  /\ calls = Len(bookings)
  /\ faults = 0
  /\ calendar = {}
  /\ issued = 0
  /\ authTokens = {}
  /\ oauth = NoTokens
  /\ cancelH = Idle
  /\ bookH = [u \in Users |-> NoBookSlot]
  /\ listing = NoListing
  /\ backups = {}
  /\ conn = Connected
  /\ lastRoute = "none"
  /\ sched = SchedulerStarted(TRUE)
  /\ migrations = Versions
  /\ schema = Versions
  /\ migLog = NoMigrationCall
  /\ calLog = NoCalendarCall

\* the sweep, the clock, and users cancelling their bookings meanwhile
NextSweep ==
  \/ MarkPastSessionsCompleted
  \/ Tick
  \/ DbCancelBooking
  \/ Resume

SpecSweep == InitSweep /\ [][NextSweep]_vars

\* the hourly timer keeps firing and the clock keeps advancing
SpecSweepLive ==
  /\ InitSweep
  /\ [][NextSweep]_vars
  /\ WF_vars(MarkPastSessionsCompleted)
  /\ WF_vars(Tick)

-----------------------------------------------------------------------------
(* The three scheduled tasks, each of whose operations may fail *)

InitSched ==
  /\ bookings \in InitialStores
  /\ history = [i \in 1..Len(bookings) |-> CreatedEntry(bookings[i])]
  /\ now = At(0, 12, 0)
  /\ tz = HostOffset
  /\ proc = [c \in Callers |-> Idle]
  /\ lastResult = NoCall
  /\ calls = Len(bookings)
  /\ faults = 0
  /\ calendar = {}
  /\ issued = 0
  /\ authTokens = {}
  /\ oauth = NoTokens
  /\ cancelH = Idle
  /\ bookH = [u \in Users |-> NoBookSlot]
  /\ listing = NoListing
  /\ backups = OldBackups
  /\ conn = Connected
  /\ lastRoute = "none"
  /\ sched \in {SchedulerStarted(autoBackup) : autoBackup \in BOOLEAN}
  /\ migrations = Versions
  /\ schema = Versions
  /\ migLog = NoMigrationCall
  /\ calLog = NoCalendarCall

BackupFires == \E backupOk \in BOOLEAN, cleanupOk \in BOOLEAN :
                 BackupTask(backupOk, cleanupOk)

SweepFires == \E dbOk \in BOOLEAN : SweepTask(dbOk)

HealthFires == \E queryOk \in BOOLEAN, statOk \in BOOLEAN :
                 HealthTask(queryOk, statOk)

NextSched ==
  \/ BackupFires
  \/ SweepFires
  \/ HealthFires
  \/ Tick

SpecSched == InitSched /\ [][NextSched]_vars

-----------------------------------------------------------------------------
(* The migration manager over a new store file *)

\* a store file just opened: MigrationManager's constructor has created the
\* empty migrations table, and nothing else exists
InitMigrate ==
  /\ bookings = <<>>
  /\ history = <<>>
  /\ now = At(0, 12, 0)
  /\ tz = HostOffset
  /\ proc = [c \in Callers |-> Idle]
  /\ lastResult = NoCall
  /\ calls = 0
  /\ faults = 0
  /\ calendar = {}
  /\ issued = 0
  /\ authTokens = {}
  /\ oauth = NoTokens
  /\ cancelH = Idle
  /\ bookH = [u \in Users |-> NoBookSlot]
  /\ listing = NoListing
  /\ backups = {}
  /\ conn = Connected
  /\ lastRoute = "none"
  /\ sched = SchedulerStarted(TRUE)
  /\ migrations = {}
  /\ schema = {}
  /\ migLog = NoMigrationCall
  /\ calLog = NoCalendarCall

\* the target versions rollback is called with
Targets == 0..LatestVersion

\* failAt = 0: no transaction of the call fails
MigrationManagerRunMigrations ==
  \E failAt \in 0..LatestVersion, fail \in Failures \ {"none"} :
    /\ calls < MaxCalls
    /\ calls' = calls + 1
    /\ RunMigrations(failAt, fail)
    /\ UNCHANGED <<storeVars, clockVars, proc, lastResult, faults, calVars,
                   botVars, sched, calLog, extVars>>

MigrationManagerRollback ==
  \E targetVersion \in Targets, failAt \in 0..LatestVersion,
     fail \in Failures \ {"none"} :
    /\ calls < MaxCalls
    /\ calls' = calls + 1
    /\ Rollback(targetVersion, failAt, fail)
    /\ UNCHANGED <<storeVars, clockVars, proc, lastResult, faults, calVars,
                   botVars, sched, calLog, extVars>>

NextMigrate ==
  \/ MigrationManagerRunMigrations
  \/ MigrationManagerRollback

SpecMigrate == InitMigrate /\ [][NextMigrate]_vars

-----------------------------------------------------------------------------
(* The calendar service: authorization, refresh, and the calendar operations *)

CalendarListEvents ==
  \E refreshOk \in RefreshOutcomes, a \in AccessTokens, listOk \in BOOLEAN :
    /\ ListEvents(refreshOk, a, listOk)
    /\ UNCHANGED <<storeVars, clockVars, proc, lastResult, calls, faults, botVars,
                   sysVars, extVars>>

CalendarUpdateEvent ==
  \E eventId \in 1..MaxEvents, refreshOk \in RefreshOutcomes, a \in AccessTokens,
     patchOk \in BOOLEAN :
    /\ UpdateEvent(eventId, refreshOk, a, patchOk)
    /\ UNCHANGED <<storeVars, clockVars, proc, lastResult, calls, faults, botVars,
                   sysVars, extVars>>

CalendarDeleteEvent ==
  \E eventId \in 1..MaxEvents, refreshOk \in RefreshOutcomes, a \in AccessTokens,
     deleteOk \in BOOLEAN :
    /\ DeleteEvent(eventId, refreshOk, a, deleteOk)
    /\ UNCHANGED <<storeVars, clockVars, proc, lastResult, calls, faults, botVars,
                   sysVars, extVars>>

NextAuth ==
  \/ AuthCallback
  \/ CalendarListEvents
  \/ CalendarCreateEvent
  \/ CalendarUpdateEvent
  \/ CalendarDeleteEvent
  \/ Tick

SpecAuth == Init /\ [][NextAuth]_vars

-----------------------------------------------------------------------------
(* Backups and restores beside booking mutations *)

InitBackup ==
  /\ bookings = <<>>
  /\ history = <<>>
  /\ now = At(0, 12, 0)
  /\ tz = HostOffset
  /\ proc = [c \in Callers |-> Idle]
  /\ lastResult = NoCall
  /\ calls = 0
  /\ faults = 0
  /\ calendar = {}
  /\ issued = 0
  /\ authTokens = {}
  /\ oauth = NoTokens
  /\ cancelH = Idle
  /\ bookH = [u \in Users |-> NoBookSlot]
  /\ listing = NoListing
  /\ backups = OldBackups
  /\ conn = Connected
  /\ lastRoute = "none"
  /\ sched = SchedulerStarted(TRUE)
  /\ migrations = Versions
  /\ schema = Versions
  /\ migLog = NoMigrationCall
  /\ calLog = NoCalendarCall

\* the booking mutations: Database.createBooking, Database.cancelBooking and
\* the steps that resume them.  A statement on a closed handle raises an
\* error and changes nothing.
StoreMutation ==
  /\ RepositoryUsable
  /\ \/ DbCreateBooking
     \/ DbCancelBooking
     \/ Resume

\* the operations of the repository that run a statement
RepositoryOps ==
  {"createBooking", "getBookingById", "getBookingsByUser", "getActiveBookings",
   "getBookingStatistics"}

\* a call of the repository when the handle it took in its constructor is
\* closed: the statement raises TypeError 'The database connection is not
\* open' and the store is left as it is
CallOnClosedHandle ==
  \E op \in RepositoryOps :
    /\ ~RepositoryUsable
    /\ calls < MaxCalls
    /\ calls' = calls + 1
    /\ lastResult' = Result(op, "ConnectionNotOpen", 0, 0, 0, <<>>)
    /\ UNCHANGED <<storeVars, clockVars, proc, faults, calVars, botVars,
                   sysVars, calLog, extVars>>

\* Database.performBackup, the restore script: dbConnection.backup()
PerformBackup ==
  \E ok \in BOOLEAN :
    /\ calls < MaxCalls
    /\ calls' = calls + 1
    /\ backups' = Backup(ok)
    /\ lastResult' = Result("backup", IF ok /\ conn.open THEN "ok" ELSE "error",
                            0, 0, 0, <<>>)
    /\ UNCHANGED <<storeVars, clockVars, proc, faults, calVars, botVars,
                   sysVars, calLog, bookH, listing, conn>>

\* dbConnection.restore(backupPath)
PerformRestore ==
  \E backupPath \in 1..(Cardinality(backups) + 1), copyOk \in BOOLEAN :
    /\ calls < MaxCalls
    /\ calls' = calls + 1
    /\ Restore(backupPath, copyOk)
    /\ UNCHANGED <<clockVars, proc, faults, calendar, issued, oauth, botVars,
                   sched, migLog, calLog, bookH, listing, backups>>

\* a backup file is damaged on disk: it can no longer be opened as a store
\* (unreadable), or some of its pages change while its header stays intact
\* (altered: rows read back with another status, the history lost)
Damaged(f, kind) ==
  IF kind = "unreadable"
  THEN [f EXCEPT !.opens = FALSE]
  ELSE [f EXCEPT !.content.bookings =
                    [i \in DOMAIN @ |-> [@[i] EXCEPT !.status = "cancelled"]],
                 !.content.history = <<>>]

DamageBackup ==
  \E f \in backups, kind \in {"unreadable", "altered"} :
    /\ faults < MaxFaults
    /\ faults' = faults + 1
    /\ Damaged(f, kind) # f
    /\ backups' = (backups \ {f}) \cup {Damaged(f, kind)}
    /\ UNCHANGED <<storeVars, clockVars, proc, lastResult, calls, calVars,
                   botVars, sysVars, calLog, bookH, listing, conn>>

NextBackup ==
  \/ StoreMutation
  \/ CallOnClosedHandle
  \/ PerformBackup
  \/ PerformRestore
  \/ DamageBackup

SpecBackup == InitBackup /\ [][NextBackup]_vars

-----------------------------------------------------------------------------
(* Properties *)

Live(row) == row.status \in {"active", "completed"}

RowsAt(rows, date, time) ==
  {i \in 1..Len(rows) : rows[i].sessionDate = date /\ rows[i].sessionTime = time}

\* the step is a createBooking call, whose outcome lastResult' holds
IsCreateStep ==
  /\ calls' = calls + 1
  /\ lastResult' # lastResult
  /\ lastResult'.op = "createBooking"

\* C1: in every reachable state, whatever the interleaving of createBooking,
\* updateBooking, cancelBooking and the completion sweep, no two rows whose
\* status is active or completed hold the same (sessionDate, sessionTime).
C1_NoDoubleBookedSlot ==
  \A i, j \in 1..Len(bookings) :
    (i # j /\ Live(bookings[i]) /\ Live(bookings[j]))
      => <<bookings[i].sessionDate, bookings[i].sessionTime>>
           # <<bookings[j].sessionDate, bookings[j].sessionTime>>

\* two live rows coexist and a createBooking for a held slot was just rejected
C1_Witness ==
  /\ Len(bookings) = 2
  /\ Live(bookings[1]) /\ Live(bookings[2])
  /\ lastResult.op = "createBooking"
  /\ lastResult.outcome = "DuplicateSlot"

\* C2: when createBooking has succeeded for a (date, time) and is called again
\* for the same (date, time), the second call fails with DuplicateSlot, adds
\* no row and no history entry, and the store holds exactly one active row
\* for the slot, which is the one entry getBookingsByUser lists for it.
C2_SecondCreateRejected ==
  [][ ( /\ lastResult.op = "createBooking"
        /\ lastResult.outcome = "ok"
        /\ bookings[lastResult.id].status = "active"
        /\ lastResult.id \in RowsAt(bookings, lastResult.sessionDate,
                                   lastResult.sessionTime)
        /\ IsCreateStep
        /\ lastResult'.sessionDate = lastResult.sessionDate
        /\ lastResult'.sessionTime = lastResult.sessionTime )
      => ( /\ lastResult'.outcome = "DuplicateSlot"
           /\ bookings' = bookings
           /\ history' = history
           /\ RowsAt(bookings', lastResult.sessionDate, lastResult.sessionTime)
                = {lastResult.id}
           /\ GetBookingsByUser(bookings', bookings[lastResult.id].telegramUserId)
                \cap RowsAt(bookings', lastResult.sessionDate, lastResult.sessionTime)
                = {lastResult.id} )
    ]_vars

\* a second createBooking for the slot of the first was rejected as DuplicateSlot
C2_Witness ==
  /\ lastResult.op = "createBooking"
  /\ lastResult.outcome = "DuplicateSlot"
  /\ Len(bookings) = 1
  /\ Len(history) = 1
  /\ bookings[1].status = "active"
  /\ calls = 2

\* C3: create, update and cancel apply their change to bookings and their
\* history insert as one unit: every row has its 'created' entry, every entry
\* belongs to a row, and a cancelled row has an entry recording the
\* cancellation, also after an operation has failed between its statements.
C3_AtomicWithHistory ==
  /\ \A i \in 1..Len(bookings) :
       \E k \in 1..Len(history) :
         history[k].bookingId = i /\ history[k].action = "created"
  /\ \A k \in 1..Len(history) : history[k].bookingId \in 1..Len(bookings)
  /\ \A i \in 1..Len(bookings) :
       bookings[i].status = "cancelled" =>
         \E k \in 1..Len(history) :
           history[k].bookingId = i /\ history[k].newValues.status = "cancelled"

\* the history action that records a store call
ActionOf(op) ==
  CASE op = "createBooking" -> "created"
    [] op = "updateBooking" -> "modified"
    [] op = "cancelBooking" -> "cancelled"

\* C4: every successful mutation appends exactly one history entry, whose
\* action matches the mutation: 'created', 'modified', 'cancelled'.
C4_OneEntryPerMutation ==
  (lastResult.op # "none" /\ lastResult.outcome = "ok")
    => lastResult.logged = <<ActionOf(lastResult.op)>>

\* C5: once a booking is cancelled or completed its status never changes.
C5_TerminalAbsorbing ==
  [][ \A i \in 1..Len(bookings) :
        bookings[i].status \in {"cancelled", "completed"}
          => bookings'[i].status = bookings[i].status ]_vars

\* C6: cancelBooking on a booking that is already cancelled changes neither
\* the bookings table nor the history log (or fails as not found).
C6_SecondCancelChangesNothing ==
  [][ \A c \in Callers :
        ( /\ proc[c].pc \in {"update_load", "update_write", "cancel_log"}
          /\ proc[c].op = "cancelBooking"
          /\ proc[c].outerOld.status = "cancelled"
          /\ proc'[c] # proc[c] )
        => (bookings' = bookings /\ history' = history) ]_vars

\* C7: after a booking at (date, time) was cancelled, createBooking for the
\* same (date, time) succeeds and the cancelled row is still in the store.
C7_CancelFreesSlot ==
  [][ ( /\ IsCreateStep
        /\ RowsAt(bookings, lastResult'.sessionDate, lastResult'.sessionTime) # {}
        /\ \A i \in RowsAt(bookings, lastResult'.sessionDate, lastResult'.sessionTime) :
             bookings[i].status = "cancelled" )
      => ( /\ lastResult'.outcome = "ok"
           /\ \A i \in 1..Len(bookings) : bookings'[i] = bookings[i] )
    ]_vars

\* C8: when the owner of an active booking triggers the cancel action, the
\* operation ends with the booking cancelled in the store and a 'cancelled'
\* history entry appended for it.
C8_CancelActionCancels ==
  ( /\ cancelH.pc = "done"
    /\ cancelH.booking # NoBooking
    /\ cancelH.booking.telegramUserId = cancelH.user
    /\ cancelH.booking.status = "active" )
  => ( /\ bookings[cancelH.id].status = "cancelled"
       /\ \E k \in 1..Len(history) :
            history[k].bookingId = cancelH.id /\ history[k].action = "cancelled" )

\* C9: a cancel request for an unknown booking id, or by an actor who is not
\* the booking's user, is answered as not found in that one step, and deletes
\* no calendar event, changes no booking and adds no history entry.
C9_UnauthorizedCancelRefused ==
  [][ ( /\ cancelH' # cancelH
        /\ LET row == IF cancelH'.id \in 1..Len(bookings)
                      THEN bookings[cancelH'.id] ELSE NoBooking
           IN row = NoBooking \/ row.telegramUserId # cancelH'.user )
      => ( /\ cancelH'.pc = "done"
           /\ cancelH'.reply = "Booking not found or not authorized"
           /\ cancelH'.deleted = "no"
           /\ calendar' = calendar
           /\ bookings' = bookings
           /\ history' = history )
    ]_vars

\* a user who does not own the booking, whose event the calendar holds, asked
\* to cancel it and was refused
C9_Witness ==
  /\ cancelH.pc = "done"
  /\ cancelH.id \in 1..Len(bookings)
  /\ bookings[cancelH.id].telegramUserId # cancelH.user
  /\ bookings[cancelH.id].googleEventId \in calendar
  /\ cancelH.reply = "Booking not found or not authorized"

\* C10: if deleteEvent fails during cancellation, the local cancellation still
\* proceeds and the booking's status becomes cancelled.
C10_DeleteEventBestEffort ==
  (cancelH.pc = "done" /\ cancelH.deleted = "failed")
    => bookings[cancelH.id].status = "cancelled"

\* the projection of a bookings table on the status column
StatusesOf(rows) == [i \in 1..Len(rows) |-> rows[i].status]

\* the session's date and time of day lie strictly before the instant t, read
\* on the wall clock of a host `offset` minutes ahead of UTC
SessionBefore(row, t, offset) ==
  At(row.sessionDate, 0, row.sessionTime) < t + offset

\* C11: for every clock reading and every offset of the host's local time
\* from UTC, after markPastSessionsCompleted every booking that was active
\* with its session strictly before now is completed, and every active booking
\* whose session is at or after now is still active.
C11_SweepResult ==
  \A i \in 1..Len(bookings) :
    bookings[i].status = "active"
      => Swept(bookings, now, tz)[i].status =
           IF SessionBefore(bookings[i], now, tz) THEN "completed" ELSE "active"

\* the status of booking i, "none" when the table has no such row
StatusAt(i) == IF i \in 1..Len(bookings) THEN bookings[i].status ELSE "none"

\* C12: with the sweep timer firing fairly, a booking that is active after its
\* session has passed is eventually completed, unless it is cancelled first;
\* none stays active for ever.
C12_PastSessionsEventuallyCompleted ==
  \A i \in 1..MaxBookings :
    [](( /\ StatusAt(i) = "active"
         /\ SessionBefore(bookings[i], now, tz) )
       => <>(StatusAt(i) \in {"completed", "cancelled"}))

\* the sweep has completed a booking whose session has passed
C12_Witness ==
  \E i \in 1..Len(bookings) :
    /\ bookings[i].status = "completed"
    /\ bookings[i].updatedAt = now
    /\ SessionBefore(bookings[i], now, tz)

\* C13: the sweep is idempotent and safe to skip: run twice at one clock
\* reading it leaves the statuses of a single run, and a run at a later
\* reading leaves the same statuses whether or not the run at the present
\* reading took place.
C13_SweepIdempotentSkippable ==
  LET once == Swept(bookings, now, tz) IN
  /\ StatusesOf(Swept(once, now, tz)) = StatusesOf(once)
  /\ \A t \in Instants \cup SweepInstants :
       t > now => StatusesOf(Swept(once, t, tz)) = StatusesOf(Swept(bookings, t, tz))

\* C14: a failure raised inside a scheduled task (backup and prune, sweep,
\* health check) is handled inside that task's callback: none escapes, and
\* after any failures every scheduled task can still fire, the failed one too.
C14_TaskIsolation ==
  /\ sched.escaped = {}
  /\ (sched.autoBackup /\ sched.runs["backup"] < MaxRuns) => ENABLED BackupFires
  /\ sched.runs["sweep"] < MaxRuns => ENABLED SweepFires
  /\ sched.runs["health"] < MaxRuns => ENABLED HealthFires

\* each of the three tasks has failed once and then fired again without failure
C14_Witness ==
  \A t \in Tasks :
    /\ sched.failed[t] = 1
    /\ sched.runs[t] = 2
    /\ sched.last[t] \in {"ok", "healthy"}

\* how often the script <<dir, v>> occurs in a log of executed scripts
Count(script, log) == Cardinality({k \in 1..Len(log) : log[k] = script})

\* the step is a call of the migration manager's operation op
IsMigrationStep(op) == calls' = calls + 1 /\ migLog'.op = op

\* C15: over any sequence of runMigrations calls each version is applied
\* exactly once (a version is applied again only after it was rolled back), a
\* call applies the versions above the current one in ascending order, and on
\* a store at the latest version it executes no script and records nothing.
C15_AppliedOnceAscending ==
  /\ [](\A v \in Versions :
          Count(<<"up", v>>, migLog.all) - Count(<<"down", v>>, migLog.all)
            = IF v \in migrations THEN 1 ELSE 0)
  /\ [][ IsMigrationStep("runMigrations") =>
          LET current == CurrentVersion(migrations) IN
          /\ migLog'.executed =
               [i \in 1..Len(migLog'.executed) |-> <<"up", current + i>>]
          /\ migrations' =
               migrations \cup {current + i : i \in 1..Len(migLog'.executed)}
          /\ (migLog'.outcome = "ok" => migrations' = Versions)
          /\ (current = LatestVersion =>
                /\ migLog'.executed = <<>>
                /\ migrations' = migrations
                /\ schema' = schema) ]_vars

\* after three calls the four versions have been applied once each, in order,
\* and the last call, runMigrations on the up-to-date store, ran no script
C15_Witness ==
  /\ calls = 3
  /\ migLog.op = "runMigrations"
  /\ migLog.outcome = "ok"
  /\ migLog.executed = <<>>
  /\ migLog.all = <<<<"up", 1>>, <<"up", 2>>, <<"up", 3>>, <<"up", 4>>>>
  /\ migrations = Versions

\* C16: in every reachable state, the one a failing migration leaves
\* included, the recorded versions are a gap-free prefix 1..k of the version
\* list and the schema change of a version is present exactly when the
\* version is recorded; a failed migration ends the call.
C16_MigrationAtomicWithRecord ==
  /\ migrations = 1..CurrentVersion(migrations)
  /\ schema = migrations
  /\ (migLog.op = "runMigrations" /\ migLog.outcome = "error")
       => LET failedVersion == CurrentVersion(migrations) + 1 IN
          /\ failedVersion \in Versions
          /\ \A v \in Versions :
               v >= failedVersion => v \notin migrations \cup schema

\* runMigrations applied versions 1 and 2 and failed at version 3
C16_Witness ==
  /\ migLog.op = "runMigrations"
  /\ migLog.outcome = "error"
  /\ migLog.executed = <<<<"up", 1>>, <<"up", 2>>>>
  /\ migrations = {1, 2}

\* C17: rollback(target) with target below the current version runs the
\* reverse scripts of current, current-1, ..., target+1 in that order, each
\* together with the removal of its record, and leaves version target alone;
\* when it succeeds the recorded versions are those <= target.  With target at
\* or above the current version it changes nothing.
C17_RollbackDescendingToTarget ==
  [][ IsMigrationStep("rollback") =>
      LET current == CurrentVersion(migrations)
          target  == migLog'.target
          undone  == {current + 1 - i : i \in 1..Len(migLog'.executed)}
      IN
      /\ migLog'.executed =
           [i \in 1..Len(migLog'.executed) |-> <<"down", current + 1 - i>>]
      /\ \A v \in undone : v > target
      /\ migrations' = migrations \ undone
      /\ schema' = schema \ undone
      /\ (target < current /\ migLog'.outcome = "ok")
           => migrations' = {v \in migrations : v <= target}
      /\ target >= current
           => (migLog'.executed = <<>> /\ migrations' = migrations /\ schema' = schema)
    ]_vars

\* rollback(2) on a store at version 4 has reversed versions 4 and 3
C17_Witness ==
  /\ migLog.op = "rollback"
  /\ migLog.target = 2
  /\ migLog.outcome = "ok"
  /\ migLog.executed = <<<<"down", 4>>, <<"down", 3>>>>
  /\ migrations = {1, 2}
  /\ schema = {1, 2}

\* the step completes an operation of the calendar service
IsServiceStep == calLog'.n = calLog.n + 1

\* the operations that call the external calendar
CalendarOps == {"listEvents", "createEvent", "updateEvent", "deleteEvent"}

\* C18: after any sequence of storeTokens calls (first authorization and
\* every refresh) the auth_tokens table holds no row or exactly one row, and
\* getTokens returns the credential set of the most recent storeTokens call.
C18_CredentialSingleton ==
  /\ [](Cardinality(authTokens) <= 1)
  /\ [](authTokens = {} <=> GetTokens(authTokens) = NoTokens)
  /\ [][ IsServiceStep =>
          IF calLog'.stored # NoTokens
          THEN GetTokens(authTokens') = calLog'.stored
          ELSE authTokens' = authTokens ]_vars

\* a refresh has replaced the row an authorization had stored
C18_Witness ==
  /\ calLog.op \in CalendarOps
  /\ calLog.n = 2
  /\ calLog.stored # NoTokens
  /\ calLog.stored.accessToken = "a2"
  /\ authTokens = {TokenRow(calLog.stored)}

\* C19: before a call to the external calendar the token's expiry is checked:
\* when the token held has expired the refresh token is exchanged and the new
\* credential set replaces the stored row; when it has not expired no exchange
\* is made and the stored credential record is left unchanged.
C19_RefreshOnlyWhenExpired ==
  [][ (IsServiceStep /\ calLog'.op \in CalendarOps /\ oauth # NoTokens) =>
      IF oauth.expiryDate <= now
      THEN /\ calLog'.exchanges = 1
           /\ calLog'.refresh = "ok" => GetTokens(authTokens') = oauth'
      ELSE /\ calLog'.exchanges = 0
           /\ authTokens' = authTokens ]_vars

\* C20: when the credential refresh fails, the calendar operation fails with
\* the authentication error, which no other failure produces, makes no
\* request to the external calendar and leaves the stored credentials and the
\* calendar as they were.
C20_RefreshFailureIsAuthError ==
  [][ (IsServiceStep /\ calLog'.op \in CalendarOps) =>
      /\ calLog'.refresh # "ok" =>
           /\ calLog'.outcome = "AuthenticationFailed"
           /\ calLog'.requests = 0
           /\ authTokens' = authTokens
           /\ calendar' = calendar
           /\ issued' = issued
      /\ calLog'.refresh = "ok" =>
           /\ calLog'.outcome \in {"ok", "error"}
           /\ calLog'.requests = 1 ]_vars

\* deleteEvent failed on its refresh: the event is still in the calendar and
\* the stored credentials are those of the authorization
C20_Witness ==
  /\ calLog.op = "deleteEvent"
  /\ calLog.refresh \in {"refreshFails", "storeFails"}
  /\ calLog.outcome = "AuthenticationFailed"
  /\ calendar # {}
  /\ authTokens # {}

-----------------------------------------------------------------------------
(* handleBookSlot *)

\* C21: handleBookSlot inserts a booking row only after createEvent answered
\* with an event id: every row added to the table is added by an invocation
\* that stands at createBooking, it is active and carries the id that
\* invocation's createEvent returned, and every history entry is written
\* with such a row; an invocation reaches createBooking only from a
\* createEvent that succeeded, and when createEvent or its token refresh
\* fails the invocation goes to its catch with the store left as it was.
C21_RowOnlyAfterEventCreated ==
  [][ /\ (bookings' # bookings \/ history' # history)
         => \E u \in Users :
              /\ bookH[u].pc = "createBooking"
              /\ bookH[u].googleEventId \in 1..issued
              /\ bookings' = Append(bookings, bookings'[Len(bookings')])
              /\ bookings'[Len(bookings')].status = "active"
              /\ bookings'[Len(bookings')].googleEventId = bookH[u].googleEventId
              /\ bookings'[Len(bookings')].telegramUserId = u
      /\ \A u \in Users :
           (bookH'[u].pc = "createBooking" /\ bookH[u].pc # "createBooking")
             => /\ bookH[u].pc = "createEvent"
                /\ calLog'.op = "createEvent" /\ calLog'.outcome = "ok"
                /\ bookH'[u].googleEventId = issued'
                /\ issued' = issued + 1
                /\ issued' \in calendar'
      /\ \A u \in Users :
           (bookH[u].pc = "createEvent" /\ bookH'[u] # bookH[u]
              /\ calLog'.outcome # "ok")
             => /\ bookH'[u].pc = "catch"
                /\ bookH'[u].googleEventId = NoEvent
                /\ UNCHANGED storeVars
      /\ \A u \in Users :
           (bookH[u].pc = "catch" /\ bookH'[u] # bookH[u])
             => /\ bookH'[u].pc = "done"
                /\ UNCHANGED storeVars
    ]_vars

\* one user's invocation has inserted the row that carries the event it
\* created, and another user's invocation, whose createEvent failed, has
\* ended with the store holding that one row and its one history entry
C21_Witness ==
  \E u, v \in Users :
    /\ u # v
    /\ bookH[u].bookingId = 1
    /\ Len(bookings) = 1 /\ Len(history) = 1
    /\ bookings[1].googleEventId = bookH[u].googleEventId
    /\ bookings[1].googleEventId \in calendar
    /\ bookings[1].status = "active"
    /\ bookH[v].pc = "done"
    /\ bookH[v].error \in {"AuthenticationFailed", "error"}
    /\ bookH[v].bookingId = 0

\* the booking rows that hold the slot an invocation asks for
RowsOfSlot(h) ==
  {i \in 1..Len(bookings) : /\ bookings[i].sessionDate = h.date
                            /\ bookings[i].sessionTime = h.time}

\* C22: when handleBookSlot reaches createBooking for a slot a row already
\* holds, createBooking fails with DuplicateSlot and stores nothing, the
\* invocation goes to its catch, and the event it has just created stays in
\* the calendar; from then on that event is in the calendar with no booking
\* row referring to it, and the user is told of an error.
C22_DuplicateLeavesOrphanEvent ==
  /\ [][ \A u \in Users :
           (bookH[u].pc = "createBooking" /\ bookH'[u] # bookH[u]
              /\ RowsOfSlot(bookH[u]) # {})
             => /\ bookH'[u].pc = "catch"
                /\ bookH'[u].error = "DuplicateSlot"
                /\ lastResult'.outcome = "DuplicateSlot"
                /\ UNCHANGED storeVars
                /\ calendar' = calendar
                /\ bookH'[u].googleEventId = bookH[u].googleEventId
       ]_vars
  /\ [](\A u \in Users :
          bookH[u].error = "DuplicateSlot"
            => /\ bookH[u].pc \in {"catch", "done"}
               /\ bookH[u].googleEventId \in calendar
               /\ \A i \in 1..Len(bookings) :
                    bookings[i].googleEventId # bookH[u].googleEventId
               /\ bookH[u].pc = "done"
                    => bookH[u].reply = "Sorry, there was an error")

\* a user's invocation has ended with DuplicateSlot on a slot another user's
\* active booking holds: the calendar holds both the booking's event and the
\* event of the failed invocation, which no row refers to
C22_Witness ==
  \E u \in Users :
    /\ bookH[u].pc = "done"
    /\ bookH[u].error = "DuplicateSlot"
    /\ bookH[u].googleEventId \in calendar
    /\ \E i \in RowsOfSlot(bookH[u]) :
         /\ bookings[i].status = "active"
         /\ bookings[i].telegramUserId # u
         /\ bookings[i].googleEventId \in calendar \ {bookH[u].googleEventId}
    /\ \A i \in 1..Len(bookings) :
         bookings[i].googleEventId # bookH[u].googleEventId

\* C23: the notification of the operator is best effort: whether or not
\* sendMessage to the operator succeeds, the step ends the invocation with
\* the store untouched, the success reply the user was sent left standing
\* and no error recorded; an invocation whose notification failed has its
\* booking row active and has told its user of the success, not of a failure.
C23_NotificationBestEffort ==
  /\ [][ \A u \in Users :
           (bookH[u].pc = "notify" /\ bookH'[u] # bookH[u])
             => /\ bookH'[u].pc = "done"
                /\ bookH'[u].error = "none"
                /\ bookH'[u].reply = bookH[u].reply
                /\ bookH'[u].coach \in {"notified", "failed"}
                /\ UNCHANGED storeVars
       ]_vars
  /\ [](\A u \in Users :
          bookH[u].coach = "failed"
            => /\ bookH[u].pc = "done"
               /\ bookH[u].error = "none"
               /\ bookH[u].reply = "Successfully booked"
               /\ bookH[u].bookingId \in 1..Len(bookings)
               /\ bookings[bookH[u].bookingId].status = "active"
               /\ bookings[bookH[u].bookingId].telegramUserId = u)

\* an invocation has inserted its row and sent the success reply, and the
\* message to the operator could not be sent
C23_Witness ==
  \E u \in Users :
    /\ bookH[u].pc = "done"
    /\ bookH[u].coach = "failed"
    /\ bookH[u].reply = "Successfully booked"
    /\ bookH[u].bookingId \in 1..Len(bookings)
    /\ bookings[bookH[u].bookingId].status = "active"

-----------------------------------------------------------------------------
(* The slot listings *)

SlotOps ==
  {"getAvailableSlots", "getAvailableTimeSlots", "getAvailableDurationSlots"}

\* the working-hours template, as times of day
TemplateTimes == {h * 60 : h \in {8, 9, 10, 11, 14, 15, 16, 17, 18, 19}}

\* the dates a listing was asked for: the daysAhead days from the day of the
\* reference instant on, or the one day of a single-day query
WindowOf(l) ==
  IF l.op \in {"getAvailableSlots", "getAvailableDaySlots"}
  THEN {d \in 0..(l.now \div SecondsPerDay + l.arg) :
          /\ d >= l.now \div SecondsPerDay
          /\ d < l.now \div SecondsPerDay + l.arg}
  ELSE {l.arg}

\* the start of a slot: its date at its time of day, second 00
StartOf(date, time) == date * SecondsPerDay + time * 60

C25_NoSlotBeforeReference ==
  listing.op \in SlotOps
    => \A i \in DOMAIN listing.result :
         StartOf(listing.result[i].date, listing.result[i].time) >= listing.now

C27_SundayExcluded ==
  /\ listing.op \in {"getAvailableSlots", "getAvailableDaySlots"}
       => \A i \in DOMAIN listing.result : listing.result[i].date % 7 # 0
  /\ ( /\ listing.op \in {"getAvailableTimeSlots", "getAvailableDurationSlots"}
       /\ listing.outcome = "ok"
       /\ listing.arg % 7 = 0
       /\ listing.now < ParseDate(listing.arg) )
       => \A t \in TemplateTimes :
            <<listing.arg, t>> \notin listing.busy
              => \E i \in DOMAIN listing.result :
                   /\ listing.result[i].date = listing.arg
                   /\ listing.result[i].time = t

-----------------------------------------------------------------------------
(* Backup, restore, pruning *)

\* a step in which a call of restore(backupPath) returns without error
IsRestored ==
  /\ calls' = calls + 1
  /\ lastResult'.op = "restore"
  /\ lastResult'.outcome = "ok"

\* C28: backup and restore round trip: when restore() of a backup file that
\* backup() wrote in store state S (and that is as backup() wrote it) has
\* succeeded, whatever booking mutations were made in between, the set of
\* active bookings and the booking statistics the store answers afterwards
\* are those of S.
C28_BackupRestoreRoundTrip ==
  [][ IsRestored
        => \A f \in backups :
             ( /\ f.name = lastResult'.id
               /\ f.opens
               /\ f.checksum = CalculateChecksum(f.content) )
               => /\ GetActiveBookings'
                       = [outcome |-> "ok",
                          value   |-> ActiveBookingsOf(f.content.bookings,
                                                       f.mtime)]
                  /\ GetBookingStatistics(RetentionDays)'
                       = [outcome |-> "ok",
                          value   |-> StatisticsOf(f.content.bookings, f.mtime,
                                                   RetentionDays)]
    ]_vars

\* a step in which restore(backupPath) is called
IsRestoreCall ==
  /\ calls' = calls + 1
  /\ lastResult'.op = "restore"

\* the backup file at path fails an integrity test: it is missing, it cannot
\* be opened as a store, or its digest is not the one backup() computed
IntegrityFailure(backupPath) ==
  \/ \A f \in backups : f.name # backupPath
  \/ \E f \in backups :
       /\ f.name = backupPath
       /\ ~f.opens \/ f.checksum # CalculateChecksum(f.content)

\* C29: restore() aborts before it touches the live store when the backup
\* file is missing, cannot be opened as a store or fails its checksum: the
\* call fails, the content of the store file is unchanged, and the
\* connection, open before the call, is as it was.
C29_RestoreAbortsOnIntegrityFailure ==
  [][ (IsRestoreCall /\ conn.open /\ IntegrityFailure(lastResult'.id))
        => /\ lastResult'.outcome # "ok"
           /\ StoreContent' = StoreContent
           /\ conn' = conn
    ]_vars

\* a step in which the scheduled backup fires and both backup() and
\* cleanupOldBackups() run without an error
IsBackupRun ==
  /\ sched'.runs["backup"] = sched.runs["backup"] + 1
  /\ sched'.last["backup"] = "ok"
  /\ sched'.failed["backup"] = sched.failed["backup"]

\* C30: pruning of backups: after a scheduled backup run (backup(), then
\* cleanupOldBackups()) the directory holds a new backup of the store as it
\* is, taken at the time of the run; every backup file older than the
\* retention window is gone, and every file not older than it, the new one
\* included, is still there.
C30_BackupPruning ==
  [][ IsBackupRun
        => \E new \in backups' \ backups :
             /\ new.mtime = now
             /\ new.content = StoreContent
             /\ backups' \subseteq backups \cup {new}
             /\ \A f \in backups \cup {new} :
                  IF f.mtime < now - RetentionDays * MinutesPerDay
                  THEN f \notin backups'
                  ELSE f \in backups'
    ]_vars

\* a scheduled backup run has completed: the file older than the retention
\* window is gone, a file of an earlier day that is not older than the window
\* is still there, and so is the backup the run made
C30_Witness ==
  /\ sched.runs["backup"] >= 1
  /\ sched.last["backup"] = "ok"
  /\ sched.failed["backup"] = 0
  /\ \E f \in OldBackups :
       f.mtime < now - RetentionDays * MinutesPerDay /\ f \notin backups
  /\ \E f \in OldBackups :
       f.mtime >= now - RetentionDays * MinutesPerDay /\ f \in backups
  /\ \E f \in backups : f.mtime = now /\ f.content = StoreContent

-----------------------------------------------------------------------------
(* The history log *)

\* the step leaves every entry the log already holds as it was
AppendOnly ==
  /\ Len(history') >= Len(history)
  /\ \A k \in 1..Len(history) : history'[k] = history[k]

\* the positions of the entries of booking i, in insert order
EntriesOf(log, i) == {k \in 1..Len(log) : log[k].bookingId = i}

\* the entry of booking i inserted last
LatestEntry(log, i) ==
  log[CHOOSE k \in EntriesOf(log, i) : \A j \in EntriesOf(log, i) : j <= k]

\* the status booking i has according to the log
LoggedStatus(log, i) == LatestEntry(log, i).newValues.status

\* C31: the history log is append-only and reconstructs booking state: no
\* step modifies or removes an entry, and in every reachable state the status
\* in the new-values snapshot of a booking's latest entry is the booking's
\* current status.
C31_HistoryReconstructsStatus ==
  /\ [][AppendOnly]_vars
  /\ [](\A i \in 1..Len(bookings) :
          EntriesOf(history, i) # {}
            => LoggedStatus(history, i) = bookings[i].status)

\* the snapshot carries only fields of the row, each with the row's value
Agrees(snapshot, row) ==
  \A f \in DOMAIN snapshot : f \in DOMAIN row /\ snapshot[f] = row[f]

\* the step appends one history entry
IsLogStep == Len(history') = Len(history) + 1

\* the entry a log step appends
Logged == history'[Len(history')]

\* the step is the UPDATE of a cancelBooking call of caller c
IsCancelWrite(c) ==
  /\ proc[c].pc = "update_write"
  /\ proc[c].op = "cancelBooking"
  /\ proc'[c].pc = "cancel_log"

\* C32: every history entry written by createBooking, updateBooking or
\* cancelBooking has as old values the row immediately before the mutation
\* (null for 'created') and as new values the row immediately after it,
\* including the bumped updatedAt.  The 'cancelled' entry is written one step
\* after cancelBooking's UPDATE: its old values are those the call holds at
\* that UPDATE, its new values are compared with the row it is logged beside.
C32_SnapshotsCorrect ==
  [][ /\ IsLogStep =>
           LET e == Logged
               i == e.bookingId
           IN
           CASE e.action = "created" ->
                  /\ e.oldValues = NoValues
                  /\ Agrees(e.newValues, bookings'[i])
             [] e.action = "modified" ->
                  /\ Agrees(e.oldValues, bookings[i])
                  /\ Agrees(e.newValues, bookings'[i])
             [] e.action = "cancelled" ->
                  /\ \E c \in Callers :
                       /\ proc[c].pc = "cancel_log"
                       /\ proc'[c] = Idle
                       /\ e.oldValues = proc[c].outerOld
                  /\ Agrees(e.newValues, bookings'[i])
      /\ \A c \in Callers :
           IsCancelWrite(c) => Agrees(proc[c].outerOld, bookings[proc[c].id])
    ]_vars

\* the step is the UPDATE and history INSERT of an updateBooking call of c
IsUpdateWrite(c) ==
  /\ proc[c].pc = "update_write"
  /\ proc[c].op = "updateBooking"
  /\ proc'[c] = Idle
  /\ IsLogStep

\* the snapshot without its updatedAt column
WithoutUpdatedAt(snapshot) ==
  [f \in DOMAIN snapshot \ {"updatedAt"} |-> snapshot[f]]

\* C34: when updateBooking calls on one booking interleave at the await
\* between loading the old row and writing, the old values of each entry are
\* the row immediately before that call's own write, and so equal the new
\* values of the booking's previous entry (updatedAt, which no new-values
\* snapshot carries bumped, left aside).
C34_InterleavedUpdatesChain ==
  [][ \A c \in Callers :
        IsUpdateWrite(c) =>
          LET e == Logged
              i == e.bookingId
          IN
          /\ Agrees(e.oldValues, bookings[i])
          /\ EntriesOf(history, i) # {}
               => Agrees(WithoutUpdatedAt(LatestEntry(history, i).newValues),
                         e.oldValues)
    ]_vars

-----------------------------------------------------------------------------
(* The keyboards and the payloads handleBookSlot takes its slot from *)

\* the text is one date written as 'YYYY-MM-DD'
IsDateText(text) == Len(text) = 1 /\ text[1].word = "YYYY-MM-DD"

\* the text is one time of day written as 'HH:mm', an hour of the template
IsTemplateTime(text) ==
  Len(text) = 1 /\ text[1].word = "HH:mm" /\ text[1].n \in TemplateTimes

\* C35: every booking row persisted through the bot's booking action carries
\* a well-formed calendar date as sessionDate and an HH:mm time of the
\* working-hours template as sessionTime, and every button the slot and day
\* keyboards render that is routed to handleBookSlot has a payload from which
\* handleBookSlot takes such a date and such a time.
C35_PersistedSlotWasOffered ==
  /\ \A i \in 1..Len(bookings) :
       /\ IsDateText(bookings[i].sessionDate)
       /\ IsTemplateTime(bookings[i].sessionTime)
  /\ \A k \in DOMAIN Keyboard :
       MatchesBook(Keyboard[k]) =>
         /\ IsDateText(Element(Split(Keyboard[k]), 1))
         /\ IsTemplateTime(Element(Split(Keyboard[k]), 2))

\* C36: after restore() has succeeded, every later operation of a repository
\* built before the restore acts on the restored store through the reopened
\* connection: while the connection is open the repository's handle is the
\* connection's, and no call of the repository is answered with the error
\* of a closed handle.
C36_RepositoryUsesReopenedConnection ==
  /\ [](conn.open => conn.repository = conn.db)
  /\ [][ (conn.open /\ calls' = calls + 1 /\ lastResult'.op \in RepositoryOps)
           => lastResult'.outcome # "ConnectionNotOpen" ]_vars

-----------------------------------------------------------------------------
(* updateBooking that fails *)

\* the update would put booking id on a (date, time) another row holds, or
\* give it a status that is none of active, cancelled, completed
Inadmissible(id, updates) ==
  LET date == IF "sessionDate" \in DOMAIN updates
              THEN updates.sessionDate ELSE bookings[id].sessionDate
      time == IF "sessionTime" \in DOMAIN updates
              THEN updates.sessionTime ELSE bookings[id].sessionTime
  IN \/ RowsAt(bookings, date, time) \ {id} # {}
     \/ "status" \in DOMAIN updates /\ updates.status \notin Statuses

\* the step is a call of updateBooking that ends at once
IsUpdateRefusal ==
  /\ calls' = calls + 1
  /\ lastResult' # lastResult
  /\ lastResult'.op = "updateBooking"

\* C37: a failing updateBooking leaves the store unchanged: a call with an
\* unknown id fails as not found, and a call whose update would move the
\* booking onto a (date, time) held by another row, or give it a status
\* outside {active, cancelled, completed}, fails at its UPDATE; in each case
\* no booking row changes and no history entry is appended.
C37_FailedUpdateChangesNothing ==
  [][ /\ IsUpdateRefusal
           => /\ lastResult'.outcome = "NotFound"
              /\ lastResult'.id \notin 1..Len(bookings)
              /\ UNCHANGED storeVars
      /\ \A c \in Callers :
           (proc[c] = Idle /\ proc'[c] # Idle /\ proc'[c].pc = "update_write")
             => proc'[c].id \in 1..Len(bookings)
      /\ \A c \in Callers :
           ( /\ proc[c].pc = "update_write"
             /\ proc[c].op = "updateBooking"
             /\ proc'[c] # proc[c]
             /\ Inadmissible(proc[c].id, proc[c].updates) )
             => /\ lastResult'.op = "updateBooking"
                /\ lastResult'.outcome = "error"
                /\ lastResult'.logged = <<>>
                /\ UNCHANGED storeVars
    ]_vars

\* an updateBooking that would move booking 2 onto the slot of booking 1 has
\* failed with no statement raising an I/O error: both rows and their two
\* history entries are all the store holds
C37_Witness ==
  /\ lastResult.op = "updateBooking"
  /\ lastResult.outcome = "error"
  /\ lastResult.id = 2
  /\ faults = 0
  /\ Len(bookings) = 2
  /\ Len(history) = 2
  /\ \A i \in 1..2 : bookings[i].status = "active"

-----------------------------------------------------------------------------
(* What handleBookSlot tells the user *)

\* the booking rows an invocation has persisted: the row whose id
\* createBooking returned to it, and any row carrying the event it created
RowsPersistedBy(h) ==
  {i \in 1..Len(bookings) :
     \/ i = h.bookingId
     \/ h.googleEventId # NoEvent /\ bookings[i].googleEventId = h.googleEventId}

\* C38: the outcome handleBookSlot reports matches the store: an invocation
\* that ended by sending the booking-failed message persisted no booking
\* row, and an invocation that persisted a row does not tell its user the
\* booking failed, also when sending the success reply fails.
C38_ReplyMatchesStore ==
  \A u \in Users :
    (bookH[u].pc = "done" /\ bookH[u].reply = "Sorry, there was an error")
      => RowsPersistedBy(bookH[u]) = {}

=============================================================================
